---- MODULE Spec2Model ----
(***************************************************************************)
(* Dispatch lifecycle of the aX platform channel plugin                    *)
(* (src/unnamed/part_003, the channel module): the dedup/timeout state     *)
(* machine, the dual-keyed session registry, the sync and async delivery   *)
(* strategies and the heartbeat / completion-callback retry protocol.      *)
(*                                                                         *)
(* Texts are sequences of tokens (a token is a word, a blank, a newline,   *)
(* an underscore or the marker "Reasoning:"), so that the sanitizer is     *)
(* computed rule by rule.  Option values are sequences of length 0 or 1.   *)
(***************************************************************************)
EXTENDS Integers, Sequences, FiniteSets, TLC

\* ------------------------------------------------------------------ bounds
MaxReq == 3
MaxTicks == 2
MaxCalls == 2
MaxTools == 2
MaxOut == 3

\* ------------------------------------------------------- program constants
DEDUP_TTL_MS == 900000
SESSION_CLEANUP_DELAY_MS == 1000
BACKEND_TIMEOUT_MS == 30000
HEARTBEAT_INTERVAL_MS == 30000
CALLBACK_RETRY_COUNT == 3
CALLBACK_RETRY_DELAY_MS == 1000
EVENT_HEARTBEAT_MIN_INTERVAL_MS == 3000
RECOVERY_NOTICE_COOLDOWN_MS == 120000

\* ------------------------------------------------------------ option, map
None == << >>
Some(x) == << x >>
IsSome(o) == Len(o) = 1
Get(o) == o[1]

EmptyMap == << >>
MapHas(m, k) == k \in DOMAIN m
MapSet(m, k, v) == [x \in (DOMAIN m) \cup {k} |-> IF x = k THEN v ELSE m[x]]
MapDelete(m, k) == [x \in (DOMAIN m) \ {k} |-> m[x]]

\* ----------------------------------------------------------------- inputs
Ids == {"d1", "d2"}
SessionKeys == {"k1"}
\* how far the clock is advanced at once
TickSteps == {BACKEND_TIMEOUT_MS, DEDUP_TTL_MS}
\* what one fetch() attempt can end in: an OK status, an auth failure, another
\* non-OK status, or a transport error (the promise rejects)
FetchOutcomes == {"ok", "401", "403", "500", "neterr"}
\* the runs of a worker: the fragments it delivers and the error it reports
WorkerRuns ==
    { [script |-> << <<"Hello">> >>, lastError |-> None],
      [script |-> << <<"Reasoning:", " ", "_", "w", "_">> >>, lastError |-> None],
      [script |-> << >>, lastError |-> Some("final: boom")] }

\* -------------------------------------------------------------- sanitizer
IsWs(t) == t \in {" ", "\n"}

RECURSIVE SkipWs(_, _)
\* \s* : the first index >= i that holds no whitespace (Len(s)+1 if none)
SkipWs(s, i) == IF i <= Len(s) /\ IsWs(s[i]) THEN SkipWs(s, i + 1) ELSE i

RECURSIVE FindTok(_, _, _)
\* the first index >= i holding tok, 0 if none
FindTok(s, i, tok) ==
    IF i > Len(s) THEN 0 ELSE IF s[i] = tok THEN i ELSE FindTok(s, i + 1, tok)

\* /Reasoning:\s*_[\s\S]*?_\s*/i matched at index i: the last index of the
\* match, 0 if there is none
MatchReasoningItalic(s, i) ==
    IF i > Len(s) \/ s[i] # "Reasoning:" THEN 0
    ELSE LET j == SkipWs(s, i + 1) IN
         IF j > Len(s) \/ s[j] # "_" THEN 0
         ELSE LET k == FindTok(s, j + 1, "_") IN
              IF k = 0 THEN 0 ELSE SkipWs(s, k + 1) - 1

\* rule 1: a leading "Reasoning: _..._" block
StripLeadingReasoning(s) ==
    IF MatchReasoningItalic(s, 1) > 0
    THEN SubSeq(s, MatchReasoningItalic(s, 1) + 1, Len(s)) ELSE s

RECURSIVE StripReasoningFrom(_, _)
\* rule 2: every "Reasoning: _..._" block, left to right
StripReasoningFrom(s, i) ==
    IF i > Len(s) THEN << >>
    ELSE IF MatchReasoningItalic(s, i) > 0
         THEN StripReasoningFrom(s, MatchReasoningItalic(s, i) + 1)
         ELSE << s[i] >> \o StripReasoningFrom(s, i + 1)

RECURSIVE PlainReasoningEnd(_, _)
\* [^\n]*(?:\n(?!\n)[^\n]*)* from index i: the last index consumed
PlainReasoningEnd(s, i) ==
    IF i > Len(s) THEN Len(s)
    ELSE IF s[i] = "\n" /\ i + 1 <= Len(s) /\ s[i + 1] = "\n" THEN i - 1
    ELSE PlainReasoningEnd(s, i + 1)

\* rule 3: a leading "Reasoning:" with plain content, up to a blank line
StripPlainReasoning(s) ==
    IF Len(s) > 0 /\ s[1] = "Reasoning:"
    THEN SubSeq(s, PlainReasoningEnd(s, SkipWs(s, 2)) + 1, Len(s)) ELSE s

RECURSIVE TrimLeft(_)
TrimLeft(s) == IF Len(s) > 0 /\ IsWs(s[1]) THEN TrimLeft(Tail(s)) ELSE s

RECURSIVE TrimRight(_)
TrimRight(s) ==
    IF Len(s) > 0 /\ IsWs(s[Len(s)]) THEN TrimRight(SubSeq(s, 1, Len(s) - 1)) ELSE s

Trim(s) == TrimRight(TrimLeft(s))

TokLen(t) == CASE t = "Hello" -> 5 [] t = "Reasoning:" -> 10 [] OTHER -> 1

RECURSIVE CharLen(_)
CharLen(s) == IF Len(s) = 0 THEN 0 ELSE TokLen(s[1]) + CharLen(Tail(s))

\* /[A-Z*#\[0-9]/ on the first character of a token
StartsContent(t) == t \in {"Hello"}

RECURSIVE StripItalicPreamble(_, _)
\* rule 8: from the right, the first underscore that is followed by content,
\* has at least 10 characters after it and an underscore before it
StripItalicPreamble(s, i) ==
    IF i < 1 THEN s
    ELSE IF /\ s[i] = "_"
            /\ StartsContent(s[i + 1])
            /\ CharLen(Trim(SubSeq(s, i + 1, Len(s)))) >= 10
            /\ \E j \in 1..(i - 1) : s[j] = "_"
         THEN Trim(SubSeq(s, i + 1, Len(s)))
         ELSE StripItalicPreamble(s, i - 1)

RECURSIVE CollapseNewlines(_)
\* rule 9: /\n{3,}/g -> "\n\n"
CollapseNewlines(s) ==
    IF Len(s) >= 3 /\ s[1] = "\n" /\ s[2] = "\n" /\ s[3] = "\n"
    THEN CollapseNewlines(Tail(s))
    ELSE IF Len(s) = 0 THEN s ELSE << s[1] >> \o CollapseNewlines(Tail(s))

\* Rules 4 to 7 rewrite identity blocks, status blocks, metadata lines and
\* toggle lines; none of their keywords is a token of the texts drawn here.
sanitizeAgentResponse(raw) ==
    IF raw = << >> THEN raw
    ELSE LET t1 == StripLeadingReasoning(raw)
             t2 == StripReasoningFrom(t1, 1)
             t3 == StripPlainReasoning(t2)
             t8 == StripItalicPreamble(t3, Len(t3) - 1)
             t9 == CollapseNewlines(t8)
         IN  Trim(t9)

\* ------------------------------------------------------------------ state
VARIABLES
    now,                   \* Date.now()
    ticks,                 \* how often the clock was advanced (bounded)
    dispatchStates,        \* Map<dispatchId, DispatchState>
    dispatchSessions,      \* Map<dispatchId, DispatchSession>
    sessionKeyIndex,       \* Map<sessionKey, dispatchId>
    cleanupIntervalHandle, \* TRUE while the periodic sweep is installed
    agentEventsLoaded,     \* _agentEventsLoaded
    onAgentEvent,          \* _onAgentEvent # null
    payloads,              \* the event the platform holds for each identifier
    req,                   \* one record per POST received, in arrival order
    calls,                 \* one record per sendCompletion / sendHeartbeat call
    recoveryNoticeBySpace, \* Map<spaceId, time of the last recovery notice>
    outbox                 \* one record per outbound.sendText call, in call order

vars == << now, ticks, dispatchStates, dispatchSessions, sessionKeyIndex,
           cleanupIntervalHandle, agentEventsLoaded, onAgentEvent,
           payloads, req, calls, recoveryNoticeBySpace, outbox >>

registry == << dispatchSessions, sessionKeyIndex >>
eventCache == << agentEventsLoaded, onAgentEvent >>
outbound == << recoveryNoticeBySpace, outbox >>

\* how a POST fails the handler's checks ahead of the dedup check
WireFaults == {"oversize", "no_agent_id", "unknown_agent", "bad_signature"}

\* a POST as the handler reads it: the payload fields it branches on, and
\* whether body, agent and signature are in order
Posts ==
    { p \in [cb : BOOLEAN, key : BOOLEAN, msg : BOOLEAN, skey : SessionKeys,
              wire : {"ok"} \cup WireFaults] :
        /\ p.key => p.cb
        /\ p.cb => p.msg }

\* the authentic payloads
PayloadSpace == {p \in Posts : p.wire = "ok"}

\* payload.heartbeat_url is optional: a payload that carries it has the field hb
HasHeartbeatUrl(p) == "hb" \in DOMAIN p

WithHeartbeatUrl(p) ==
    [x \in (DOMAIN p) \cup {"hb"} |-> IF x = "hb" THEN TRUE ELSE p[x]]

\* the payloads of async-mode dispatches that carry a heartbeat URL
HeartbeatPosts == {WithHeartbeatUrl(p) : p \in {q \in Posts : q.cb /\ q.wire = "ok"}}

\* ------------------------------------------------------------ dedup state
\* variant: a dispatch that ran into the timeout is taken for a new one
DispatchStatusRestart(states, id, t) ==
    IF ~MapHas(states, id) THEN "new"
    ELSE IF states[id].status = "in_progress"
         THEN IF t - states[id].startedAt >= BACKEND_TIMEOUT_MS
              THEN "new" ELSE "in_progress"
         ELSE "completed"

\* variant: the threshold itself is still within the timeout
DispatchStatusStrict(states, id, t) ==
    IF ~MapHas(states, id) THEN "new"
    ELSE IF states[id].status = "in_progress"
         THEN IF t - states[id].startedAt > BACKEND_TIMEOUT_MS
              THEN "timed_out" ELSE "in_progress"
         ELSE "completed"

\* the classification of checkDispatchState
DispatchStatus(states, id, t) ==
    IF ~MapHas(states, id) THEN "new"
    ELSE IF states[id].status = "in_progress"
         THEN IF t - states[id].startedAt >= BACKEND_TIMEOUT_MS
              THEN "timed_out" ELSE "in_progress"
         ELSE "completed"

\* variant: a delivery that finds a completed entry starts it over
checkDispatchStateReopen(states, id, t) ==
    LET status == DispatchStatus(states, id, t) IN
    [ status    |-> status,
      response  |-> IF status = "completed" THEN states[id].response ELSE None,
      elapsedMs |-> IF status \in {"in_progress", "timed_out"}
                    THEN t - states[id].startedAt ELSE 0,
      states    |-> IF status \in {"new", "completed"}
                    THEN MapSet(states, id,
                           [status |-> "in_progress", startedAt |-> t, response |-> None])
                    ELSE states ]

\* checkDispatchState: the classification, its response and elapsedMs, and
\* the map it leaves behind
checkDispatchState(states, id, t) ==
    LET status == DispatchStatus(states, id, t) IN
    [ status    |-> status,
      response  |-> IF status = "completed" THEN states[id].response ELSE None,
      elapsedMs |-> IF status \in {"in_progress", "timed_out"}
                    THEN t - states[id].startedAt ELSE 0,
      states    |-> IF status = "new"
                    THEN MapSet(states, id,
                           [status |-> "in_progress", startedAt |-> t, response |-> None])
                    ELSE states ]

\* variant: an identifier without entry gets a completed one
markDispatchCompletedUpsert(states, id, response) ==
    IF MapHas(states, id)
    THEN MapSet(states, id,
           [states[id] EXCEPT !.status = "completed", !.response = Some(response)])
    ELSE MapSet(states, id,
           [status |-> "completed", startedAt |-> 0, response |-> Some(response)])

\* markDispatchCompleted: the entry of id, if there is one, is completed with
\* the response
markDispatchCompleted(states, id, response) ==
    IF MapHas(states, id)
    THEN MapSet(states, id,
           [states[id] EXCEPT !.status = "completed", !.response = Some(response)])
    ELSE states

\* variant: the sweep spares the entries that are still in_progress
SweepExpiredCompletedOnly(states, t) ==
    [x \in {y \in DOMAIN states : ~(/\ t - states[y].startedAt > DEDUP_TTL_MS
                                     /\ states[y].status = "completed")} |-> states[x]]

\* the sweep of startPeriodicCleanup's interval callback
SweepExpired(states, t) ==
    [x \in {y \in DOMAIN states : ~(t - states[y].startedAt > DEDUP_TTL_MS)} |-> states[x]]

\* ------------------------------------------------------------------ texts
timeoutMsg(elapsedMs) ==
    << "[Request timed out after ", ToString(elapsedMs \div 60000), " minutes]" >>

RECURSIVE Concat(_)
\* responseText += deliverPayload.text, over the deliver() calls of one run
Concat(script) == IF Len(script) = 0 THEN << >> ELSE script[1] \o Concat(Tail(script))

\* the final text of a dispatch (the same chain in both modes)
FinalResponse(responseText, lastError, deliverCallCount) ==
    IF responseText # << >> THEN sanitizeAgentResponse(responseText)
    ELSE IF IsSome(lastError) THEN << "[Agent error: ", Get(lastError), "]" >>
    ELSE IF deliverCallCount = 0 THEN << "[Agent chose not to respond]" >>
    ELSE << "[No response from agent]" >>

completionStatus(responseText, lastError) ==
    IF responseText = << >> /\ IsSome(lastError) THEN "failed" ELSE "success"

\* dispatchState.response || "[Already processed]"
CachedOrDefault(response) ==
    IF IsSome(response) /\ Get(response) # << >> THEN Get(response)
    ELSE << "[Already processed]" >>

\* sendJson bodies
JsonSuccess(text) == [code |-> 200, status |-> "success", response |-> Some(text)]
JsonAccepted == [code |-> 200, status |-> "accepted", response |-> None]
JsonError(code) == [code |-> code, status |-> "error", response |-> None]

\* Date.now() when the module is loaded
Epoch == 1000000

Init ==
    /\ now = Epoch
    /\ ticks = 0
    /\ dispatchStates = EmptyMap
    /\ dispatchSessions = EmptyMap
    /\ sessionKeyIndex = EmptyMap
    /\ cleanupIntervalHandle = FALSE
    /\ agentEventsLoaded = FALSE
    /\ onAgentEvent = FALSE
    /\ payloads = EmptyMap
    /\ req = << >>
    /\ calls = << >>
    /\ recoveryNoticeBySpace = EmptyMap
    /\ outbox = << >>

\* --------------------------------------------------------------- requests
\* The record of one POST: its payload, the classification it got, where its
\* handler (or its detached task) stands, the HTTP response once sent, the
\* worker invocation it made, and the timers and subscription it owns.
Request(id, p, cls) ==
    [ id |-> id, p |-> p, cls |-> cls, pc |-> "done", resp |-> None,
      worker |-> "none", final |-> None, ev |-> FALSE, subscribed |-> FALSE,
      heartbeatTimer |-> FALSE, cleanup |-> "none", cleanupDue |-> 0,
      awaiting |-> 0,
      \* the locals of processDispatchAsync
      startTime |-> 0, heartbeatCount |-> 0, currentTool |-> None,
      toolCallCount |-> 0, lastEventHeartbeatTs |-> 0, unsub |-> "none",
      \* the number of tool events the worker invoked for it has emitted
      emitted |-> 0,
      \* whether markDispatchCompleted found an entry for the final text
      cached |-> FALSE ]

\* payload.auth_token: every dispatch carries a token of its own
TokenOf(id) == << "token", id >>

\* the fields of a DispatchSession that the registry is read by
Session(id, p) == [dispatchId |-> id, sessionKey |-> p.skey, authToken |-> TokenOf(id)]

\* variant: the registry is keyed by sessionKey, one Session per key
StoreSessionPerKey(sessions, id, s) ==
    [x \in {y \in DOMAIN sessions : sessions[y].sessionKey # s.sessionKey} \cup {id} |->
        IF x = id THEN s ELSE sessions[x]]

\* dispatchSessions.set(dispatchId, session)
StoreSession(sessions, id, s) == MapSet(sessions, id, s)

\* variant: the index keeps the first dispatch stored for a key
IndexSessionKeepFirst(index, skey, id) ==
    IF MapHas(index, skey) THEN index ELSE MapSet(index, skey, id)

\* sessionKeyIndex.set(sessionKey, dispatchId)
IndexSession(index, skey, id) == MapSet(index, skey, id)

\* variant: the eviction is not deferred
CleanupDueImmediate(t) == t

\* setTimeout(..., SESSION_CLEANUP_DELAY_MS) called at time t
CleanupDue(t) == t + SESSION_CLEANUP_DELAY_MS

\* variant: the eviction removes the index entry whatever it points at
EvictIndexAlways(index, skey, id) == MapDelete(index, skey)

\* variant: the eviction leaves the index alone
EvictIndexNever(index, skey, id) == index

\* the eviction timer's index step: the entry is removed only if it still
\* points at the dispatch being evicted
EvictIndex(index, skey, id) ==
    IF MapHas(index, skey) /\ index[skey] = id THEN MapDelete(index, skey) ELSE index

getDispatchSessionById(sessions, id) ==
    IF MapHas(sessions, id) THEN Some(sessions[id]) ELSE None

\* the lookup by sessionKey: a key that is a dispatchId is looked up
\* directly, otherwise through the index
getDispatchSession(sessions, index, skey) ==
    IF MapHas(sessions, skey) THEN Some(sessions[skey])
    ELSE IF MapHas(index, skey) THEN getDispatchSessionById(sessions, index[skey])
    ELSE None

\* variant: the completed branch is missing
ShortCircuitsNoCompleted(status) == status \in {"in_progress", "timed_out"}

\* variant: a dispatch that ran into the timeout is processed again
ShortCircuitsNoTimedOut(status) == status \in {"in_progress", "completed"}

\* the dedup branches of the handler return before anything else is done
ShortCircuits(status) == status \in {"in_progress", "timed_out", "completed"}

DedupResponse(st) ==
    CASE st.status = "in_progress" -> JsonSuccess(<< >>)
      [] st.status = "timed_out"   -> JsonSuccess(timeoutMsg(st.elapsedMs))
      [] st.status = "completed"   -> JsonSuccess(CachedOrDefault(st.response))

\* the handler's catch block: dispatchId is a const of the try block, so
\* `typeof dispatchId` in the catch block names no binding
DispatchIdVisibleInCatch == FALSE

HandlerCatch(states, id) ==
    IF DispatchIdVisibleInCatch THEN MapDelete(states, id) ELSE states

\* ------------------------------------------------------ callback transport
\* a running sendCompletion / sendHeartbeat: the loop is at its first fetch
NewCall(fn, owner, status, response) ==
    [ fn |-> fn, owner |-> owner, status |-> status, response |-> response,
      attempt |-> 1, pc |-> "fetch", wakeAt |-> 0, last |-> "none",
      waits |-> 0, result |-> FALSE,
      \* of the body sent: total_tool_calls, current_tool, what the progress
      \* line says, and which caller built it at what time
      tools |-> 0, tool |-> None, progress |-> "none", kind |-> "none", at |-> 0 ]

\* variant: only 401 is taken for an auth failure
IsAuthFailure401(o) == o = "401"

IsAuthFailure(o) == o \in {"401", "403"}

\* variant: the delay is also taken after the last attempt
HasRetryBudgetOffByOne(attempt) == attempt <= CALLBACK_RETRY_COUNT

HasRetryBudget(attempt) == attempt < CALLBACK_RETRY_COUNT

\* one pass of the retry loop after the fetch of c settled with outcome o
AfterFetch(c, o, t) ==
    IF o = "ok" THEN [c EXCEPT !.last = o, !.pc = "done", !.result = TRUE]
    ELSE IF IsAuthFailure(o) THEN [c EXCEPT !.last = o, !.pc = "done", !.result = FALSE]
    ELSE IF HasRetryBudget(c.attempt)
         THEN [c EXCEPT !.last = o, !.pc = "delay", !.waits = @ + 1,
                        !.wakeAt = t + CALLBACK_RETRY_DELAY_MS]
         ELSE [c EXCEPT !.last = o, !.pc = "done", !.result = FALSE]

FetchSettles(c, o) ==
    /\ c \in DOMAIN calls
    /\ calls[c].pc = "fetch"
    /\ calls' = [calls EXCEPT ![c] = AfterFetch(calls[c], o, now)]
    /\ UNCHANGED << outbound, now, ticks, dispatchStates, registry, cleanupIntervalHandle, eventCache,
                    payloads, req >>

\* sendCompletion / sendHeartbeat is called on its own
Invoke(fn) ==
    /\ Len(calls) < MaxCalls
    /\ calls' = Append(calls, NewCall(fn, 0, "success", None))
    /\ UNCHANGED << outbound, now, ticks, dispatchStates, registry, cleanupIntervalHandle, eventCache,
                    payloads, req >>

\* the clock reaches the time the retry delay of c was set for
DelayPasses(c) ==
    /\ c \in DOMAIN calls
    /\ calls[c].pc = "delay"
    /\ now < calls[c].wakeAt
    /\ now' = calls[c].wakeAt
    /\ UNCHANGED << outbound, ticks, dispatchStates, registry, cleanupIntervalHandle, eventCache,
                    payloads, req, calls >>

\* the retry delay's timer fires, no earlier than it was set for
DelayElapses(c) ==
    /\ c \in DOMAIN calls
    /\ calls[c].pc = "delay"
    /\ now >= calls[c].wakeAt
    /\ calls' = [calls EXCEPT ![c] =
                   [@ EXCEPT !.attempt = @ + 1, !.pc = "fetch", !.wakeAt = 0]]
    /\ UNCHANGED << outbound, now, ticks, dispatchStates, registry, cleanupIntervalHandle, eventCache,
                    payloads, req >>

\* variant: async mode is chosen only when the callback can be sent
ModeOfNeedsKey(p) == IF p.cb /\ p.key THEN "async" ELSE "sync"

\* `if (payload.callback_url)`: the delivery strategy of a new dispatch
ModeOf(p) == IF p.cb THEN "async" ELSE "sync"

\* variant: the completion callback is sent whenever there is a URL
HasCallbackUrlOnly(p) == p.cb

\* the completion callback needs the URL and the key
HasCallback(p) == p.cb /\ p.key

\* variant: the .catch handler leaves the dedup entry as it is
RejectionStatesNoMark(states, id) == states

\* the .catch handler on the detached processDispatchAsync promise
RejectionStates(states, id) ==
    markDispatchCompleted(states, id, << "[System error: ", "err", "]" >>)

RejectionCalls(cs, r, p) ==
    IF HasCallback(p) THEN Append(cs, NewCall("sendCompletion", r, "failed", None))
    ELSE cs

\* ------------------------------------------------------------ the handler
\* POST /ax/dispatch for an authentic payload, up to its first await.
Deliver(id, p) ==
    /\ Len(req) < MaxReq
    /\ IF MapHas(payloads, id) THEN p = payloads[id] ELSE p \in Posts \cup HeartbeatPosts
    /\ payloads' = MapSet(payloads, id, p)
    /\ LET st == checkDispatchState(dispatchStates, id, now)
           base == Request(id, p, st.status)
       IN  IF ShortCircuits(st.status)
           THEN /\ dispatchStates' =
                      IF st.status = "timed_out"
                      THEN markDispatchCompleted(st.states, id, timeoutMsg(st.elapsedMs))
                      ELSE st.states
                /\ req' = Append(req, [base EXCEPT !.resp = Some(DedupResponse(st))])
                /\ UNCHANGED << registry, eventCache >>
           ELSE /\ dispatchSessions' = StoreSession(dispatchSessions, id, Session(id, p))
                /\ sessionKeyIndex' = IndexSession(sessionKeyIndex, p.skey, id)
                /\ IF ~p.msg
                   THEN /\ req' = Append(req, [base EXCEPT !.resp = Some(JsonError(400))])
                        /\ dispatchStates' = st.states
                        /\ UNCHANGED eventCache
                   ELSE IF ModeOf(p) = "async"
                   THEN \* async mode: ACK, then processDispatchAsync runs up to
                        \* `await getOnAgentEvent()`
                        /\ req' = Append(req,
                             [base EXCEPT !.resp = Some(JsonAccepted),
                                          !.startTime = now,
                                          !.pc = IF agentEventsLoaded
                                                 THEN "async_events" ELSE "async_import",
                                          !.ev = onAgentEvent])
                        /\ agentEventsLoaded' = TRUE
                        /\ dispatchStates' = st.states
                        /\ UNCHANGED onAgentEvent
                   ELSE \* sync mode: the handler awaits the worker
                        /\ req' = Append(req,
                             [base EXCEPT !.pc = "sync_worker", !.worker = "running"])
                        /\ dispatchStates' = st.states
                        /\ UNCHANGED eventCache
    /\ UNCHANGED << outbound, now, ticks, cleanupIntervalHandle, calls >>

\* payload.dispatch_id || `ext-${Date.now()}`: the identifier of a delivery
\* whose payload carries dispatch_id (an option) and arrives at time t
DispatchIdOf(dispatch_id, t) ==
    IF IsSome(dispatch_id) THEN Get(dispatch_id) ELSE "ext-" \o ToString(t)

\* variant: the signature is not verified
PreCheckNoSignature(p) ==
    CASE p.wire = "oversize"      -> 500
      [] p.wire = "no_agent_id"   -> 400
      [] p.wire = "unknown_agent" -> 401
      [] OTHER                    -> 0

\* the checks ahead of the dedup check: the status the POST is answered with
\* (0: it passes).  readBody rejects an oversize body, which the handler's
\* catch block answers.
PreCheck(p) ==
    CASE p.wire = "oversize"      -> 500
      [] p.wire = "no_agent_id"   -> 400
      [] p.wire = "unknown_agent" -> 401
      [] p.wire = "bad_signature" -> 401
      [] OTHER                    -> 0

\* POST /ax/dispatch: the checks ahead of the dedup check, then the handler
Post(id, p) ==
    IF PreCheck(p) # 0
    THEN /\ Len(req) < MaxReq
         /\ req' = Append(req, [Request(id, p, "rejected") EXCEPT
                                  !.resp = Some(JsonError(PreCheck(p)))])
         /\ UNCHANGED << now, ticks, dispatchStates, registry, cleanupIntervalHandle,
                         eventCache, payloads, calls, outbound >>
    ELSE Deliver(id, p)

\* sync mode: the worker returned after the deliver() calls of `script` and
\* possibly an onError call
SyncWorkerReturns(r, script, lastError) ==
    /\ r \in DOMAIN req
    /\ req[r].pc = "sync_worker"
    /\ LET final == FinalResponse(Concat(script), lastError, Len(script)) IN
       /\ dispatchStates' = markDispatchCompleted(dispatchStates, req[r].id, final)
       /\ req' = [req EXCEPT ![r] =
                    [@ EXCEPT !.pc = "done", !.worker = "returned",
                              !.final = Some(final),
                              !.cached = MapHas(dispatchStates, req[r].id),
                              !.cleanup = "armed",
                              !.cleanupDue = CleanupDue(now),
                              !.resp = Some(JsonSuccess(final))]]
    /\ UNCHANGED << outbound, now, ticks, registry, cleanupIntervalHandle, eventCache, payloads, calls >>

\* sync mode: the worker threw; the handler's catch block answers 500
SyncWorkerThrows(r) ==
    /\ r \in DOMAIN req
    /\ req[r].pc = "sync_worker"
    /\ dispatchStates' = HandlerCatch(dispatchStates, req[r].id)
    /\ req' = [req EXCEPT ![r] =
                 [@ EXCEPT !.pc = "done", !.worker = "threw",
                           !.resp = Some(JsonError(500))]]
    /\ UNCHANGED << outbound, now, ticks, registry, cleanupIntervalHandle, eventCache, payloads, calls >>

\* ------------------------------------------------- processDispatchAsync
\* variant: the task subscribes whether or not there is an event source
EventSourceAlways(q, avail) == TRUE

\* the value `await getOnAgentEvent()` yields to the task of request q: what
\* the import left in _onAgentEvent (avail: the host's module could be
\* imported), or what the cache held when the call was made
EventSourceFor(q, avail) ==
    IF q.pc = "async_import" THEN (IF avail THEN TRUE ELSE onAgentEvent)
    ELSE q.ev

\* variant: the finally block leaves the heartbeat timer running
FinallyKeepsTimer(q, cleanupThrows) ==
    [q EXCEPT !.subscribed = IF cleanupThrows THEN @ ELSE FALSE,
              !.unsub = IF ~q.subscribed THEN "none"
                        ELSE IF cleanupThrows THEN "threw" ELSE "called",
              !.pc = "done"]

\* the finally block: the heartbeat timer is cleared, then the subscription
\* (if any) is released; releasing it may throw
Finally(q, cleanupThrows) ==
    [q EXCEPT !.heartbeatTimer = FALSE,
              !.subscribed = IF cleanupThrows THEN @ ELSE FALSE,
              !.unsub = IF ~q.subscribed THEN "none"
                        ELSE IF cleanupThrows THEN "threw" ELSE "called",
              !.pc = "done"]

\* getOnAgentEvent has settled: subscribe, start the heartbeat timer, load
\* the config and invoke the worker
AsyncResume(r, avail) ==
    /\ r \in DOMAIN req
    /\ req[r].pc \in {"async_events", "async_import"}
    /\ onAgentEvent' = IF req[r].pc = "async_import" /\ avail THEN TRUE
                       ELSE onAgentEvent
    /\ LET q == req[r]
           src == EventSourceFor(q, avail)
       IN  req' = [req EXCEPT ![r] =
                     [@ EXCEPT !.pc = "async_worker", !.worker = "running",
                               !.ev = src, !.subscribed = src,
                               !.heartbeatTimer = TRUE]]
    /\ UNCHANGED << outbound, now, ticks, dispatchStates, calls, registry, cleanupIntervalHandle, agentEventsLoaded,
                    payloads >>

\* the end of the task after the completion callback (or without one): the
\* eviction timer is set, then the finally block runs; when that throws, the
\* promise rejects and the .catch handler runs
AsyncEnd(r, q, states, cs, cleanupThrows) ==
    LET armed == [q EXCEPT !.cleanup = "armed",
                           !.cleanupDue = CleanupDue(now)]
        throws == cleanupThrows /\ q.subscribed
    IN  /\ req' = [req EXCEPT ![r] = Finally(armed, throws)]
        /\ dispatchStates' = IF throws THEN RejectionStates(states, q.id) ELSE states
        /\ calls' = IF throws THEN RejectionCalls(cs, r, q.p) ELSE cs

\* variant: the callback is started without the final text being cached
AsyncWorkerSettlesCallbackFirst(r, script, lastError, threw, cleanupThrows) ==
    /\ r \in DOMAIN req
    /\ req[r].pc = "async_worker"
    /\ LET err == IF threw THEN Some("thrown") ELSE lastError
           text == Concat(script)
           final == FinalResponse(text, err, Len(script))
           q == [req[r] EXCEPT !.worker = IF threw THEN "threw" ELSE "returned",
                               !.final = Some(final),
                               !.cached = MapHas(dispatchStates, req[r].id)]
           states == markDispatchCompleted(dispatchStates, q.id, final)
       IN  IF HasCallback(q.p)
           THEN /\ calls' = Append(calls,
                      [NewCall("sendCompletion", r, completionStatus(text, err), Some(final))
                         EXCEPT !.tools = q.toolCallCount])
                /\ req' = [req EXCEPT ![r] =
                             [q EXCEPT !.pc = "async_completion",
                                       !.awaiting = Len(calls) + 1]]
                /\ dispatchStates' = dispatchStates
           ELSE AsyncEnd(r, q, states, calls, cleanupThrows)
    /\ UNCHANGED << outbound, now, ticks, registry, cleanupIntervalHandle, eventCache, payloads >>

\* async mode: the worker returned or threw (the inner catch turns a throw
\* into lastError); the final text is cached and the callback started
AsyncWorkerSettles(r, script, lastError, threw, cleanupThrows) ==
    /\ r \in DOMAIN req
    /\ req[r].pc = "async_worker"
    /\ LET err == IF threw THEN Some("thrown") ELSE lastError
           text == Concat(script)
           final == FinalResponse(text, err, Len(script))
           q == [req[r] EXCEPT !.worker = IF threw THEN "threw" ELSE "returned",
                               !.final = Some(final),
                               !.cached = MapHas(dispatchStates, req[r].id)]
           states == markDispatchCompleted(dispatchStates, q.id, final)
       IN  IF HasCallback(q.p)
           THEN /\ calls' = Append(calls,
                      [NewCall("sendCompletion", r, completionStatus(text, err), Some(final))
                         EXCEPT !.tools = q.toolCallCount])
                /\ req' = [req EXCEPT ![r] =
                             [q EXCEPT !.pc = "async_completion",
                                       !.awaiting = Len(calls) + 1]]
                /\ dispatchStates' = states
           ELSE AsyncEnd(r, q, states, calls, cleanupThrows)
    /\ UNCHANGED << outbound, now, ticks, registry, cleanupIntervalHandle, eventCache, payloads >>

\* variant: the task also waits for the heartbeats sent for it
AwaitedCallsWithHeartbeats(cs, r, q) ==
    {q.awaiting} \cup {c \in DOMAIN cs : cs[c].fn = "sendHeartbeat" /\ cs[c].owner = r}

\* the callback invocations the task of request r (record q) awaits before
\* it goes on: `await sendCompletion(...)` only; the listener's sendHeartbeat
\* is not awaited and the timer's is awaited by the timer callback
AwaitedCalls(cs, r, q) == {q.awaiting}

\* async mode: the awaited sendCompletion returned
AsyncCompletionReturns(r, cleanupThrows) ==
    /\ r \in DOMAIN req
    /\ req[r].pc = "async_completion"
    /\ \A c \in AwaitedCalls(calls, r, req[r]) : calls[c].pc = "done"
    /\ AsyncEnd(r, req[r], dispatchStates, calls, cleanupThrows)
    /\ UNCHANGED << outbound, now, ticks, registry, cleanupIntervalHandle, eventCache, payloads >>

\* async mode: getAxPlatformRuntime() or loadConfig() throws after the
\* subscription and the heartbeat timer were set up; the finally block runs,
\* the promise rejects and the .catch handler runs
AsyncSetupThrows(r, avail) ==
    /\ r \in DOMAIN req
    /\ req[r].pc \in {"async_events", "async_import"}
    /\ onAgentEvent' = IF req[r].pc = "async_import" /\ avail THEN TRUE
                       ELSE onAgentEvent
    /\ LET q == req[r]
           src == EventSourceFor(q, avail)
           set == [q EXCEPT !.ev = src, !.subscribed = src, !.heartbeatTimer = TRUE]
       IN  /\ req' = [req EXCEPT ![r] = Finally(set, FALSE)]
           /\ dispatchStates' = RejectionStates(dispatchStates, q.id)
           /\ calls' = RejectionCalls(calls, r, q.p)
    /\ UNCHANGED << outbound, now, ticks, registry, cleanupIntervalHandle, agentEventsLoaded,
                    payloads >>

\* ------------------------------------------------------------- heartbeats
\* `payload.heartbeat_url && payload.callback_api_key`
CanHeartbeat(p) == HasHeartbeatUrl(p) /\ p.key

\* the progress line of a periodic heartbeat
Progress(q) ==
    IF IsSome(q.currentTool) THEN "Using"
    ELSE IF q.toolCallCount > 0 THEN "Thinking" ELSE "Processing"

\* one run of the setInterval callback of request r's task, the k-th no
\* earlier than k intervals after the task started
HeartbeatTick(r) ==
    /\ r \in DOMAIN req
    /\ req[r].heartbeatTimer
    /\ now >= req[r].startTime + (req[r].heartbeatCount + 1) * HEARTBEAT_INTERVAL_MS
    /\ req' = [req EXCEPT ![r] = [@ EXCEPT !.heartbeatCount = @ + 1]]
    /\ calls' = IF CanHeartbeat(req[r].p)
                THEN Append(calls,
                       [NewCall("sendHeartbeat", r, "success", None)
                          EXCEPT !.kind = "periodic", !.at = now,
                                 !.tool = req[r].currentTool,
                                 !.progress = Progress(req[r])])
                ELSE calls
    /\ UNCHANGED << outbound, now, ticks, dispatchStates, registry, cleanupIntervalHandle,
                    eventCache, payloads >>

\* variant: every tool start sends a heartbeat
EventHeartbeatDueAlways(t, last) == t - last >= 0

\* `now - lastEventHeartbeatTs >= EVENT_HEARTBEAT_MIN_INTERVAL_MS`
EventHeartbeatDue(t, last) == t - last >= EVENT_HEARTBEAT_MIN_INTERVAL_MS

\* `if (event.sessionKey !== sessionKey) return`: the events the listener of
\* request q acts on
ListensTo(q, e) == q.subscribed /\ e.sessionKey = q.p.skey

\* the listener of request q has run on the tool event e at time t
OnToolEvent(q, e, t) ==
    IF ~ListensTo(q, e) THEN q
    ELSE IF e.phase = "start"
         THEN [q EXCEPT !.currentTool = Some(e.name),
                        !.toolCallCount = @ + 1,
                        !.lastEventHeartbeatTs = IF EventHeartbeatDue(t, @) THEN t ELSE @]
    ELSE IF e.phase = "end" THEN [q EXCEPT !.currentTool = None]
    ELSE q

\* the listener of request q sends a heartbeat on the tool event e at time t
SendsEventHeartbeat(q, e, t) ==
    /\ ListensTo(q, e)
    /\ e.phase = "start"
    /\ EventHeartbeatDue(t, q.lastEventHeartbeatTs)
    /\ CanHeartbeat(q.p)

RECURSIVE EventHeartbeats(_, _, _, _, _)
\* the sendHeartbeat calls the listeners of requests i.. make on event e, in
\* the order the listeners were subscribed
EventHeartbeats(reqs, cs, i, e, t) ==
    IF i > Len(reqs) THEN cs
    ELSE EventHeartbeats(reqs,
           IF SendsEventHeartbeat(reqs[i], e, t)
           THEN Append(cs, [NewCall("sendHeartbeat", i, "success", None)
                              EXCEPT !.kind = "event", !.at = t,
                                     !.tool = Some(e.name), !.progress = "Using"])
           ELSE cs,
           i + 1, e, t)

\* the worker of request r emits a tool event on the host's event bus; every
\* subscribed listener is called with it
ToolEvent(r, phase, name) ==
    /\ r \in DOMAIN req
    /\ req[r].worker = "running"
    /\ req[r].emitted < MaxTools
    /\ LET e == [sessionKey |-> req[r].p.skey, dispatchId |-> req[r].id,
                 phase |-> phase, name |-> name]
       IN  /\ req' = [x \in DOMAIN req |->
                        IF x = r THEN [OnToolEvent(req[x], e, now) EXCEPT !.emitted = @ + 1]
                        ELSE OnToolEvent(req[x], e, now)]
           /\ calls' = EventHeartbeats(req, calls, 1, e, now)
    /\ UNCHANGED << outbound, now, ticks, dispatchStates, registry, cleanupIntervalHandle,
                    eventCache, payloads >>

\* --------------------------------------------------------------- outbound
\* The texts of this section are made of the tokens "Hello", "Context
\* overflow" and "API rate limit reached"; a pattern is looked for inside a
\* token, not across tokens.
Spaces == {"s1", "s2"}

RAW_INTERNAL_ERROR_PATTERNS ==
    [ context |-> {"context overflow", "prompt too large for the model",
                   "try /reset", "try /new"},
      rate    |-> {"api rate limit reached", "rate limit", "too many requests"} ]

\* String.prototype.toLowerCase
ToLowerCase(t) ==
    CASE t = "Hello"                  -> "hello"
      [] t = "Context overflow"       -> "context overflow"
      [] t = "API rate limit reached" -> "api rate limit reached"
      [] OTHER                        -> t

\* String.prototype.includes on the lowercase tokens
Includes(t, pattern) ==
    \/ t = pattern
    \/ t = "api rate limit reached" /\ pattern = "rate limit"

\* the kind of raw internal error a text is, None when it is none
classifyInternalErrorText(text) ==
    LET hit(patterns) ==
            \E i \in DOMAIN text, pt \in patterns : Includes(ToLowerCase(text[i]), pt)
    IN  IF hit(RAW_INTERNAL_ERROR_PATTERNS.context) THEN Some("context")
        ELSE IF hit(RAW_INTERNAL_ERROR_PATTERNS.rate) THEN Some("rate")
        ELSE None

buildRecoveryNotice(kind) ==
    IF kind = "context"
    THEN << "Quick heads up - I'm compacting internal context and will follow with a clean response shortly." >>
    ELSE << "Quick heads up - I hit temporary model capacity and am retrying now. I'll send the full response shortly." >>

\* variant: the comparison of the cooldown is reversed
InCooldownReversed(t, lastNoticeAt) == t - lastNoticeAt > RECOVERY_NOTICE_COOLDOWN_MS

\* `now - lastNoticeAt < RECOVERY_NOTICE_COOLDOWN_MS`
InCooldown(t, lastNoticeAt) == t - lastNoticeAt < RECOVERY_NOTICE_COOLDOWN_MS

\* `recoveryNoticeBySpace.get(spaceId) || 0`
LastNoticeAt(notices, spaceId) ==
    IF MapHas(notices, spaceId) THEN notices[spaceId] ELSE 0

\* the record of one sendText call: what it was called with and when, what
\* it returned, and the content handed to the platform (None: nothing was)
Outbound(to, text, t, result, content) ==
    [ to |-> to, text |-> text, at |-> t, result |-> result, content |-> content ]

\* variant: a suppressed message starts the cooldown over
SendTextSuppressionExtends(to, text, tokenOk, sendOk) ==
    /\ Len(outbox) < MaxOut
    /\ LET kind == classifyInternalErrorText(text)
           sent(content) == Outbound(to, text, now, IF sendOk THEN "ok" ELSE "error",
                                     Some(sanitizeAgentResponse(content)))
       IN  IF ~tokenOk
           THEN /\ outbox' = Append(outbox, Outbound(to, text, now, "no_token", None))
                /\ UNCHANGED recoveryNoticeBySpace
           ELSE IF to = None
           THEN /\ outbox' = Append(outbox, Outbound(to, text, now, "no_space", None))
                /\ UNCHANGED recoveryNoticeBySpace
           ELSE IF IsSome(kind)
           THEN IF InCooldown(now, LastNoticeAt(recoveryNoticeBySpace, Get(to)))
                THEN /\ outbox' = Append(outbox, Outbound(to, text, now, "suppressed", None))
                     /\ recoveryNoticeBySpace' = MapSet(recoveryNoticeBySpace, Get(to), now)
                ELSE /\ outbox' = Append(outbox, sent(buildRecoveryNotice(Get(kind))))
                     /\ recoveryNoticeBySpace' = MapSet(recoveryNoticeBySpace, Get(to), now)
           ELSE /\ outbox' = Append(outbox, sent(text))
                /\ UNCHANGED recoveryNoticeBySpace
    /\ UNCHANGED << now, ticks, dispatchStates, registry, cleanupIntervalHandle, eventCache,
                    payloads, req, calls >>

\* outbound.sendText({to, text}): tokenOk, the access token resolves; sendOk,
\* the platform call succeeds.  A call without target space has to = None.
SendText(to, text, tokenOk, sendOk) ==
    /\ Len(outbox) < MaxOut
    /\ LET kind == classifyInternalErrorText(text)
           sent(content) == Outbound(to, text, now, IF sendOk THEN "ok" ELSE "error",
                                     Some(sanitizeAgentResponse(content)))
       IN  IF ~tokenOk
           THEN /\ outbox' = Append(outbox, Outbound(to, text, now, "no_token", None))
                /\ UNCHANGED recoveryNoticeBySpace
           ELSE IF to = None
           THEN /\ outbox' = Append(outbox, Outbound(to, text, now, "no_space", None))
                /\ UNCHANGED recoveryNoticeBySpace
           ELSE IF IsSome(kind)
           THEN IF InCooldown(now, LastNoticeAt(recoveryNoticeBySpace, Get(to)))
                THEN /\ outbox' = Append(outbox, Outbound(to, text, now, "suppressed", None))
                     /\ UNCHANGED recoveryNoticeBySpace
                ELSE /\ outbox' = Append(outbox, sent(buildRecoveryNotice(Get(kind))))
                     /\ recoveryNoticeBySpace' = MapSet(recoveryNoticeBySpace, Get(to), now)
           ELSE /\ outbox' = Append(outbox, sent(text))
                /\ UNCHANGED recoveryNoticeBySpace
    /\ UNCHANGED << now, ticks, dispatchStates, registry, cleanupIntervalHandle, eventCache,
                    payloads, req, calls >>

\* ------------------------------------------------------------------ timers
\* the deferred eviction of request r's session, no earlier than it was set for
SessionCleanupFires(r) ==
    /\ r \in DOMAIN req
    /\ req[r].cleanup = "armed"
    /\ now >= req[r].cleanupDue
    /\ dispatchSessions' = MapDelete(dispatchSessions, req[r].id)
    /\ sessionKeyIndex' = EvictIndex(sessionKeyIndex, req[r].p.skey, req[r].id)
    /\ req' = [req EXCEPT ![r] = [@ EXCEPT !.cleanup = "fired", !.cleanupDue = 0]]
    /\ UNCHANGED << outbound, now, ticks, dispatchStates, cleanupIntervalHandle, eventCache, payloads, calls >>

Tick(d) ==
    /\ ticks < MaxTicks
    /\ ticks' = ticks + 1
    /\ now' = now + d
    /\ UNCHANGED << outbound, dispatchStates, registry, cleanupIntervalHandle, eventCache, payloads, req, calls >>

\* gateway.start: startPeriodicCleanup installs the sweep once
GatewayStart ==
    /\ ~cleanupIntervalHandle
    /\ cleanupIntervalHandle' = TRUE
    /\ UNCHANGED << outbound, now, ticks, dispatchStates, registry, eventCache, payloads, req, calls >>

\* gateway.stop: the sweep is removed and the three maps are cleared
GatewayStop ==
    /\ cleanupIntervalHandle' = FALSE
    /\ dispatchSessions' = EmptyMap
    /\ sessionKeyIndex' = EmptyMap
    /\ dispatchStates' = EmptyMap
    /\ UNCHANGED << outbound, now, ticks, eventCache, payloads, req, calls >>

\* one run of the sweep interval's callback (the interval's phase is free)
PeriodicCleanup ==
    /\ cleanupIntervalHandle
    /\ dispatchStates' = SweepExpired(dispatchStates, now)
    /\ UNCHANGED << outbound, now, ticks, cleanupIntervalHandle, registry, eventCache,
                    payloads, req, calls >>

\* ------------------------------------------------------- specifications
\* identifiers come into use in a fixed order
FreshIds == IF ~MapHas(payloads, "d1") THEN {"d1"} ELSE Ids

SyncPayloads == {p \in PayloadSpace : ModeOf(p) = "sync"}

\* the runs of a worker that reports no error
PlainRuns == {w \in WorkerRuns : w.lastError = None}

\* the outcomes of a fetch that differ in what the loop does next
MainFetchOutcomes == {"ok", "401", "500"}

\* The dedup lifecycle: deliveries and redeliveries of sync-mode dispatches,
\* their workers, the eviction timers, the clock, the gateway and its sweep.
Next ==
    \/ \E id \in FreshIds, p \in SyncPayloads : Deliver(id, p)
    \/ \E r \in DOMAIN req, w \in PlainRuns : SyncWorkerReturns(r, w.script, w.lastError)
    \/ \E r \in DOMAIN req : SyncWorkerThrows(r)
    \/ \E r \in DOMAIN req : SessionCleanupFires(r)
    \/ \E d \in TickSteps : Tick(d)
    \/ GatewayStart
    \/ GatewayStop
    \/ PeriodicCleanup

Spec == Init /\ [][Next]_vars

\* The delivery strategies: deliveries and redeliveries of one dispatch in
\* either mode, the detached task of the async mode and its callbacks.
AsyncNext ==
    \/ \E p \in PayloadSpace : Deliver("d1", p)
    \/ \E r \in DOMAIN req, w \in WorkerRuns : SyncWorkerReturns(r, w.script, w.lastError)
    \/ \E r \in DOMAIN req : SyncWorkerThrows(r)
    \/ \E r \in DOMAIN req, avail \in BOOLEAN : AsyncResume(r, avail)
    \/ \E r \in DOMAIN req, w \in WorkerRuns, threw \in BOOLEAN, ct \in BOOLEAN :
          AsyncWorkerSettles(r, w.script, w.lastError, threw, ct)
    \/ \E r \in DOMAIN req, ct \in BOOLEAN : AsyncCompletionReturns(r, ct)
    \/ \E c \in DOMAIN calls, o \in MainFetchOutcomes : FetchSettles(c, o)
    \/ \E c \in DOMAIN calls : DelayElapses(c)
    \/ \E r \in DOMAIN req : SessionCleanupFires(r)
    \/ \E d \in TickSteps : Tick(d)

AsyncSpec == Init /\ [][AsyncNext]_vars

\* The callback transport on its own: every fetch settles and every delay
\* elapses (the promises of fetch and setTimeout settle).
RetrySteps ==
    \/ \E c \in DOMAIN calls, o \in FetchOutcomes : FetchSettles(c, o)
    \/ \E c \in DOMAIN calls : DelayPasses(c)
    \/ \E c \in DOMAIN calls : DelayElapses(c)

RetryNext ==
    \/ \E fn \in {"sendCompletion", "sendHeartbeat"} : Invoke(fn)
    \/ \E c \in DOMAIN calls, o \in FetchOutcomes : FetchSettles(c, o)
    \/ \E c \in DOMAIN calls : DelayPasses(c)
    \/ \E c \in DOMAIN calls : DelayElapses(c)

RetrySpec == Init /\ [][RetryNext]_vars /\ WF_vars(RetrySteps)

\* The intake: POSTs that pass or fail the checks ahead of the dedup check,
\* among sync-mode dispatches in progress.
IntakeNext ==
    \/ \E p \in {q \in Posts : ModeOf(q) = "sync"} : Post("d1", p)
    \/ \E r \in DOMAIN req, w \in PlainRuns : SyncWorkerReturns(r, w.script, w.lastError)
    \/ \E r \in DOMAIN req : SyncWorkerThrows(r)
    \/ \E r \in DOMAIN req : SessionCleanupFires(r)
    \/ \E d \in TickSteps : Tick(d)

IntakeSpec == Init /\ [][IntakeNext]_vars

\* the payload of a sync-mode message, as far as the handler reads it
PlainPayload ==
    [cb |-> FALSE, key |-> FALSE, msg |-> TRUE, skey |-> "k1", wire |-> "ok"]

\* The synthesized identifier: deliveries and redeliveries of one event whose
\* payload carries no dispatch_id, and of one that carries it.
SynthNext ==
    \/ \E dispatch_id \in {None, Some("d1")} :
          Deliver(DispatchIdOf(dispatch_id, now), PlainPayload)
    \/ \E r \in DOMAIN req : SyncWorkerReturns(r, << <<"Hello">> >>, None)
    \/ \E r \in DOMAIN req : SessionCleanupFires(r)
    \/ \E d \in TickSteps : Tick(d)

SynthSpec == Init /\ [][SynthNext]_vars

\* the texts handed to sendText and delivered by workers: a plain one and
\* raw internal errors of both kinds
OutboundTexts ==
    { <<"Hello">>, <<"Context overflow">>, <<"API rate limit reached">> }

OutboundTickSteps == {60000, RECOVERY_NOTICE_COOLDOWN_MS}

\* The outbound path: sendText calls for two spaces.
OutboundNext ==
    \/ \E to \in {None} \cup {Some(x) : x \in Spaces}, text \in OutboundTexts,
          tokenOk \in BOOLEAN, sendOk \in BOOLEAN : SendText(to, text, tokenOk, sendOk)
    \/ \E d \in OutboundTickSteps : Tick(d)

OutboundSpec == Init /\ [][OutboundNext]_vars

\* The reply paths: one dispatch in either mode whose worker delivers a plain
\* text or a raw internal error, its redeliveries and its completion callback.
RelayNext ==
    \/ \E p \in {q \in PayloadSpace : q.msg /\ (q.cb => q.key)} : Deliver("d1", p)
    \/ \E r \in DOMAIN req, text \in OutboundTexts : SyncWorkerReturns(r, << text >>, None)
    \/ \E r \in DOMAIN req : AsyncResume(r, FALSE)
    \/ \E r \in DOMAIN req, text \in OutboundTexts :
          AsyncWorkerSettles(r, << text >>, None, FALSE, FALSE)
    \/ \E r \in DOMAIN req : AsyncCompletionReturns(r, FALSE)
    \/ \E c \in DOMAIN calls : FetchSettles(c, "ok")
    \/ \E text \in OutboundTexts : SendText(Some("s1"), text, TRUE, TRUE)
    \/ Tick(BACKEND_TIMEOUT_MS)

RelaySpec == Init /\ [][RelayNext]_vars

\* the payloads of the heartbeat specifications: async mode with a message,
\* with and without heartbeat URL and callback key
HeartbeatPayloads ==
    {p \in PayloadSpace \cup HeartbeatPosts : p.cb /\ (p.key \/ HasHeartbeatUrl(p))}

\* The periodic heartbeat: one async-mode dispatch, its timer and the ways
\* its task ends.
HeartbeatNext ==
    \/ \E p \in HeartbeatPayloads : Deliver("d1", p)
    \/ \E r \in DOMAIN req, avail \in BOOLEAN : AsyncResume(r, avail)
    \/ \E r \in DOMAIN req, avail \in BOOLEAN : AsyncSetupThrows(r, avail)
    \/ \E r \in DOMAIN req, phase \in {"start", "end"} : ToolEvent(r, phase, "exec")
    \/ \E r \in DOMAIN req : HeartbeatTick(r)
    \/ \E r \in DOMAIN req, threw \in BOOLEAN, ct \in BOOLEAN :
          AsyncWorkerSettles(r, << <<"Hello">> >>, None, threw, ct)
    \/ \E r \in DOMAIN req, ct \in BOOLEAN : AsyncCompletionReturns(r, ct)
    \/ \E c \in {x \in DOMAIN calls : calls[x].fn = "sendCompletion"} : FetchSettles(c, "ok")
    \/ \E r \in DOMAIN req : SessionCleanupFires(r)
    \/ Tick(HEARTBEAT_INTERVAL_MS)

HeartbeatSpec == Init /\ [][HeartbeatNext]_vars

\* how far the clock is advanced between tool events
EventTickSteps == {1000, EVENT_HEARTBEAT_MIN_INTERVAL_MS}

\* the number of dispatches of the tool-event specification
MaxTasks == 2

\* The tool events: async-mode dispatches that share a conversation and are
\* active at once, the tool events of their workers, and the end of a task.
EventNext ==
    \/ \E id \in FreshIds, p \in {q \in HeartbeatPayloads : q.key} :
          /\ Len(req) < MaxTasks
          /\ ~MapHas(dispatchStates, id)
          /\ Deliver(id, p)
    \/ \E r \in DOMAIN req : AsyncResume(r, TRUE)
    \/ \E r \in DOMAIN req, phase \in {"start", "end", "update"} : ToolEvent(r, phase, "exec")
    \/ \E r \in DOMAIN req : AsyncWorkerSettles(r, << <<"Hello">> >>, None, FALSE, FALSE)
    \/ \E d \in EventTickSteps : Tick(d)

EventSpec == Init /\ [][EventNext]_vars

\* the payload of an async-mode dispatch with heartbeat URL and callback key
BeatPayload ==
    WithHeartbeatUrl([cb |-> TRUE, key |-> TRUE, msg |-> TRUE, skey |-> "k1", wire |-> "ok"])

\* The heartbeat transport: one async-mode dispatch, the heartbeats of its
\* timer and of its listener with every outcome of their POSTs, the worker
\* and the completion callback.
FireForgetNext ==
    \/ /\ req = << >>
       /\ Deliver("d1", BeatPayload)
    \/ \E r \in DOMAIN req : AsyncResume(r, TRUE)
    \/ \E r \in DOMAIN req : req[r].emitted = 0 /\ ToolEvent(r, "start", "exec")
    \/ \E r \in DOMAIN req : HeartbeatTick(r)
    \/ \E r \in DOMAIN req, w \in WorkerRuns :
          AsyncWorkerSettles(r, w.script, w.lastError, FALSE, FALSE)
    \/ \E r \in DOMAIN req : AsyncCompletionReturns(r, FALSE)
    \/ \E c \in DOMAIN calls :
          \E o \in IF calls[c].fn = "sendHeartbeat" THEN FetchOutcomes ELSE {"ok"} :
             FetchSettles(c, o)
    \/ \E c \in DOMAIN calls : DelayElapses(c)
    \/ Tick(HEARTBEAT_INTERVAL_MS)

FireForgetSpec == Init /\ [][FireForgetNext]_vars

\* the payload of an async-mode dispatch with callback URL and key
CallbackPayload ==
    [cb |-> TRUE, key |-> TRUE, msg |-> TRUE, skey |-> "k1", wire |-> "ok"]

\* The completion callback among redeliveries: one async-mode dispatch, the
\* task of its first delivery and the retries of its callback, redeliveries
\* at any time, the clock, the gateway and its sweep.
CallbackNext ==
    \/ Deliver("d1", CallbackPayload)
    \/ AsyncResume(1, FALSE)
    \/ \E w \in PlainRuns : AsyncWorkerSettles(1, w.script, w.lastError, FALSE, FALSE)
    \/ AsyncCompletionReturns(1, FALSE)
    \/ \E c \in DOMAIN calls, o \in {"ok", "500"} : FetchSettles(c, o)
    \/ \E c \in DOMAIN calls : DelayElapses(c)
    \/ \E d \in TickSteps : Tick(d)
    \/ GatewayStart
    \/ GatewayStop
    \/ PeriodicCleanup

CallbackSpec == Init /\ [][CallbackNext]_vars

\* the payloads of async-mode dispatches with a message
AsyncPayloads == {p \in PayloadSpace : p.cb /\ p.msg}

\* `await getOnAgentEvent()` settles and the task goes on, up to the worker
\* invocation or to an exception ahead of it
SetupSteps ==
    \/ \E r \in DOMAIN req, avail \in BOOLEAN : AsyncResume(r, avail)
    \/ \E r \in DOMAIN req, avail \in BOOLEAN : AsyncSetupThrows(r, avail)

\* The ends of the detached task: async-mode deliveries and redeliveries of
\* one dispatch, the task ending normally, after a worker error or by an
\* exception, the clock and gateway stop.  The worker may run forever; the
\* awaited import settles.
SettleNext ==
    \/ \E p \in AsyncPayloads : Len(req) < MaxTasks /\ Deliver("d1", p)
    \/ \E r \in DOMAIN req, avail \in BOOLEAN : AsyncResume(r, avail)
    \/ \E r \in DOMAIN req, avail \in BOOLEAN : AsyncSetupThrows(r, avail)
    \/ \E r \in DOMAIN req, threw \in BOOLEAN, ct \in BOOLEAN :
          AsyncWorkerSettles(r, << <<"Hello">> >>, None, threw, ct)
    \/ \E r \in DOMAIN req, ct \in BOOLEAN : AsyncCompletionReturns(r, ct)
    \/ \E c \in DOMAIN calls : FetchSettles(c, "ok")
    \/ Tick(BACKEND_TIMEOUT_MS)
    \/ GatewayStop

SettleSpec == Init /\ [][SettleNext]_vars /\ WF_vars(SetupSteps)

\* ------------------------------------------------------------ observables
\* the step is a delivery: the handler has appended its request
Delivered == Len(req') = Len(req) + 1
\* the reply text of request q's HTTP response (empty when it carries none)
RespText(q) ==
    IF IsSome(q.resp) /\ IsSome(Get(q.resp).response)
    THEN Get(Get(q.resp).response) ELSE << >>
\* the requests made for identifier id
ReqsOf(id) == {r \in DOMAIN req : req[r].id = id}
\* the sendCompletion invocations made for request r
CompletionCalls(r) ==
    {c \in DOMAIN calls : calls[c].fn = "sendCompletion" /\ calls[c].owner = r}
\* the non-empty reply texts emitted for id: HTTP responses and completion callbacks
ReplyTexts(id) ==
    ( {RespText(req[r]) : r \in ReqsOf(id)}
      \cup {Get(calls[c].response) :
              c \in {x \in DOMAIN calls : /\ calls[x].fn = "sendCompletion"
                                          /\ calls[x].owner \in ReqsOf(id)
                                          /\ IsSome(calls[x].response)}} )
    \ {<< >>}
\* no request for id between r1 and r2 was classified new
NoNewBetween(id, r1, r2) ==
    \A x \in (r1 + 1)..(r2 - 1) : req[x].id = id => req[x].cls # "new"

\* ----------------------------------------------------------------- claims
\* C1: all non-empty reply texts ever emitted for one dispatch identifier
\* (HTTP responses of the delivery and of its redeliveries, completion
\* callback) carry the same text.
C1_ExactlyOneReply ==
    \A id \in Ids : Cardinality(ReplyTexts(id)) <= 1

C3_DuplicateReturnsOriginal ==
    [][ Delivered =>
          LET q == req'[Len(req')] IN
          \A r \in DOMAIN req :
             ( /\ req[r].id = q.id
               /\ req[r].cls = "new"
               /\ ModeOf(req[r].p) = "sync"
               /\ req[r].worker = "returned"
               /\ q.cls = "completed"
               /\ \A x \in (r + 1)..Len(req) :
                    req[x].id = q.id => req[x].cls \in {"in_progress", "completed"} )
             => /\ RespText(q) = RespText(req[r])
                /\ q.worker = "none" ]_vars

\* C4: redeliveries answered from a completed entry (the timed-out one that
\* completed it included) all return the same text, even if the worker
\* finishes in between.
C4_RedeliveriesIdentical ==
    \A r1, r2 \in DOMAIN req :
        ( /\ r1 < r2
          /\ req[r1].id = req[r2].id
          /\ req[r1].cls \in {"timed_out", "completed"}
          /\ req[r2].cls = "completed"
          /\ NoNewBetween(req[r1].id, r1, r2) )
        => RespText(req[r1]) = RespText(req[r2])

C6_DedupFrame ==
    [][ Delivered =>
          LET q == req'[Len(req')] IN
          q.cls \in {"in_progress", "timed_out", "completed"} =>
             /\ q.worker = "none"
             /\ q.pc = "done"
             /\ \A r \in DOMAIN req : req'[r] = req[r]
             /\ calls' = calls
             /\ dispatchSessions' = dispatchSessions
             /\ sessionKeyIndex' = sessionKeyIndex
             /\ (q.cls = "in_progress" => dispatchStates' = dispatchStates) ]_vars

\* redeliveries of an async-mode dispatch were short-circuited, one before
\* and one after the timeout
C6_Witness ==
    \E r1, r2 \in DOMAIN req :
        /\ req[r1].cls = "in_progress"
        /\ req[r2].cls = "timed_out"
        /\ req[r2].p.cb

C8_ExactlyOneCompletion ==
    \A r \in DOMAIN req :
        (req[r].cls = "new" /\ req[r].p.msg /\ req[r].p.cb) =>
            /\ Cardinality(CompletionCalls(r)) <= 1
            /\ req[r].pc = "done" => Cardinality(CompletionCalls(r)) = 1

\* what holds of every sendCompletion / sendHeartbeat invocation at any time
RetrySafe ==
    \A c \in DOMAIN calls :
        LET k == calls[c] IN
        /\ k.attempt \in 1..CALLBACK_RETRY_COUNT
        /\ k.last = "ok" => k.pc = "done"
        /\ k.pc = "done" => (k.result <=> k.last = "ok")
        /\ k.waits = IF k.pc = "delay" THEN k.attempt ELSE k.attempt - 1
        /\ k.waits <= CALLBACK_RETRY_COUNT - 1

\* every invocation made so far has returned (a return is final)
AllReturned == \A c \in DOMAIN calls : calls[c].pc = "done"

\* C9: an invocation of sendCompletion or sendHeartbeat makes at most
\* CALLBACK_RETRY_COUNT attempts, none after an OK response, waits only
\* between attempts, and terminates, returning true iff an attempt got an OK
\* response.
C9_RetryBudget ==
    /\ []RetrySafe
    /\ []<>AllReturned

\* an invocation used up its budget: three failed attempts, two waits
C9_Witness ==
    \E c \in DOMAIN calls :
        /\ calls[c].pc = "done"
        /\ calls[c].attempt = CALLBACK_RETRY_COUNT
        /\ calls[c].waits = CALLBACK_RETRY_COUNT - 1
        /\ calls[c].last = "neterr"
        /\ ~calls[c].result

\* C10: after an attempt that got 401 or 403 the invocation has returned
\* false, with no further attempt and no wait after that attempt.
C10_AuthFailureAborts ==
    \A c \in DOMAIN calls :
        LET k == calls[c] IN
        k.last \in {"401", "403"} =>
            /\ k.pc = "done"
            /\ ~k.result
            /\ k.waits = k.attempt - 1
            /\ k.wakeAt = 0

\* a heartbeat's second attempt got 403 with budget left
C10_Witness ==
    \E c \in DOMAIN calls :
        /\ calls[c].fn = "sendHeartbeat"
        /\ calls[c].last = "403"
        /\ calls[c].attempt = 2
        /\ calls[c].pc = "done"

\* ------------------------------------------------- registry observables
\* the dispatches whose Session is stored under sessionKey k
StoredFor(k) == {id \in DOMAIN dispatchSessions : dispatchSessions[id].sessionKey = k}
\* the requests that stored a Session for id
NewReqs(id) == {r \in ReqsOf(id) : req[r].cls = "new"}
\* the request that created the Session stored for id
LastNew(id) == CHOOSE r \in NewReqs(id) : \A x \in NewReqs(id) : x <= r
\* the most recently created Session among those stored under k
Newest(k) == CHOOSE id \in StoredFor(k) : \A o \in StoredFor(k) : LastNew(o) <= LastNew(id)
\* the step is the eviction timer of request r firing
Evicts(r) == req[r].cleanup = "armed" /\ req'[r].cleanup = "fired"

\* C11: whenever a Session is stored for a sessionKey, getDispatchSession of
\* that key resolves to the most recently created Session among those stored.
C11_LookupResolvesNewestStored ==
    \A k \in SessionKeys :
        StoredFor(k) # {} =>
            getDispatchSession(dispatchSessions, sessionKeyIndex, k)
                = Some(dispatchSessions[Newest(k)])

\* C12: while the Session of every dispatch stored under a sessionKey is
\* still in the registry, getDispatchSession of that key returns the Session
\* of the dispatch stored last.
C12_LookupReturnsLastStored ==
    \A k \in SessionKeys :
        LET news == {r \in DOMAIN req : req[r].cls = "new" /\ req[r].p.skey = k} IN
        (news # {} /\ \A r \in news : MapHas(dispatchSessions, req[r].id)) =>
            LET last == CHOOSE r \in news : \A x \in news : x <= r IN
            getDispatchSession(dispatchSessions, sessionKeyIndex, k)
                = Some(Session(req[last].id, req[last].p))

\* two dispatches with different identifiers share a sessionKey and both
\* Sessions are stored
C12_Witness ==
    \E r1, r2 \in DOMAIN req :
        /\ r1 < r2
        /\ req[r1].cls = "new" /\ req[r2].cls = "new"
        /\ req[r1].id # req[r2].id
        /\ req[r1].p.skey = req[r2].p.skey
        /\ MapHas(dispatchSessions, req[r1].id)
        /\ MapHas(dispatchSessions, req[r2].id)
        /\ sessionKeyIndex[req[r2].p.skey] = req[r2].id

\* C13: the eviction of dispatch d removes the index entry of d's sessionKey
\* exactly when the entry points at d; when it points at another dispatch e,
\* the entry and every stored Session other than d's stay as they are.
C13_EvictionSparesNewerEntry ==
    [][ \A r \in DOMAIN req :
          Evicts(r) =>
             LET d == req[r].id
                 k == req[r].p.skey
             IN  /\ ~MapHas(dispatchSessions', d)
                 /\ \A e \in (DOMAIN dispatchSessions) \ {d} :
                       MapHas(dispatchSessions', e)
                       /\ dispatchSessions'[e] = dispatchSessions[e]
                 /\ MapHas(sessionKeyIndex, k) =>
                       IF sessionKeyIndex[k] = d
                       THEN sessionKeyIndex' = MapDelete(sessionKeyIndex, k)
                       ELSE sessionKeyIndex' = sessionKeyIndex
                 /\ ~MapHas(sessionKeyIndex, k) => sessionKeyIndex' = sessionKeyIndex ]_vars

\* an older dispatch was evicted while the index pointed at a newer one
C13_Witness ==
    \E r1, r2 \in DOMAIN req :
        /\ r1 < r2
        /\ req[r1].id # req[r2].id
        /\ req[r1].cleanup = "fired"
        /\ req[r2].cls = "new"
        /\ MapHas(sessionKeyIndex, req[r1].p.skey)
        /\ sessionKeyIndex[req[r1].p.skey] = req[r2].id
        /\ MapHas(dispatchSessions, req[r2].id)

\* C14: storing the Session of one dispatch leaves the stored Session of
\* every other dispatch as it is, and every stored Session is the one of its
\* own dispatch (identifier and auth token).
C14_StoreLeavesOthers ==
    [][ /\ \A id \in DOMAIN dispatchSessions :
              /\ dispatchSessions[id].dispatchId = id
              /\ dispatchSessions[id].authToken = TokenOf(id)
        /\ Delivered =>
              LET q == req'[Len(req')] IN
              q.cls = "new" =>
                 /\ getDispatchSessionById(dispatchSessions', q.id) = Some(Session(q.id, q.p))
                 /\ \A d1 \in (DOMAIN dispatchSessions) \ {q.id} :
                       getDispatchSessionById(dispatchSessions', d1)
                           = Some(dispatchSessions[d1]) ]_vars

\* two dispatches sharing a sessionKey are active at once, each with its own
\* Session
C14_Witness ==
    \E r1, r2 \in DOMAIN req :
        /\ r1 < r2
        /\ req[r1].id # req[r2].id
        /\ req[r1].worker = "running" /\ req[r2].worker = "running"
        /\ req[r1].p.skey = req[r2].p.skey
        /\ getDispatchSessionById(dispatchSessions, req[r1].id)
              = Some(Session(req[r1].id, req[r1].p))
        /\ getDispatchSessionById(dispatchSessions, req[r2].id)
              = Some(Session(req[r2].id, req[r2].p))

C16_StoredSessionHasEviction ==
    \A id \in DOMAIN dispatchSessions :
        \E r \in NewReqs(id) :
            req[r].pc # "done" \/ req[r].cleanup = "armed"

\* C17: when the worker of a sync-mode dispatch throws, the dedup entry of
\* the dispatch is deleted (so that its next delivery is classified new).
C17_ThrowDeletesEntry ==
    [][ \A r \in DOMAIN req :
          ( /\ ModeOf(req[r].p) = "sync"
            /\ req[r].worker = "running"
            /\ req'[r].worker = "threw" )
          => ~MapHas(dispatchStates', req[r].id) ]_vars

\* C18: when the worker of a dispatch throws, the dedup entry of the
\* dispatch (if there still is one) is completed with a non-empty text, which
\* redeliveries are answered with.
C18_WorkerErrorCompletes ==
    [][ \A r \in DOMAIN req :
          ( /\ req[r].worker = "running"
            /\ req'[r].worker = "threw"
            /\ MapHas(dispatchStates, req[r].id) )
          => /\ MapHas(dispatchStates', req[r].id)
             /\ dispatchStates'[req[r].id].status = "completed"
             /\ IsSome(dispatchStates'[req[r].id].response)
             /\ Get(dispatchStates'[req[r].id].response) # << >> ]_vars

\* C19: a POST answered 400 for missing message content leaves the dedup
\* map, dispatchSessions and sessionKeyIndex as they were.
C19_NoMessageLeavesState ==
    [][ Delivered =>
          LET q == req'[Len(req')] IN
          (q.cls = "new" /\ ~q.p.msg) =>
             /\ q.resp = Some(JsonError(400))
             /\ dispatchStates' = dispatchStates
             /\ dispatchSessions' = dispatchSessions
             /\ sessionKeyIndex' = sessionKeyIndex ]_vars

\* C20: a POST with an oversize body, without agent_id, for an unknown agent
\* or with a bad signature is answered with an error status, invokes no
\* worker and leaves the dedup map, dispatchSessions and sessionKeyIndex as
\* they were.
C20_RejectedLeavesState ==
    [][ Delivered =>
          LET q == req'[Len(req')] IN
          q.p.wire \in WireFaults =>
             /\ q.cls = "rejected"
             /\ IsSome(q.resp)
             /\ Get(q.resp).status = "error"
             /\ Get(q.resp).code = IF q.p.wire = "oversize" THEN 500
                                   ELSE IF q.p.wire = "no_agent_id" THEN 400 ELSE 401
             /\ q.worker = "none"
             /\ q.pc = "done"
             /\ \A r \in DOMAIN req : req'[r] = req[r]
             /\ dispatchStates' = dispatchStates
             /\ dispatchSessions' = dispatchSessions
             /\ sessionKeyIndex' = sessionKeyIndex ]_vars

\* a POST with a bad signature was rejected for an identifier whose dispatch
\* is in progress, and its entry and Session are still there
C20_Witness ==
    \E r1, r2 \in DOMAIN req :
        /\ r1 < r2
        /\ req[r1].id = req[r2].id
        /\ req[r1].worker = "running"
        /\ req[r2].cls = "rejected"
        /\ req[r2].p.wire = "bad_signature"
        /\ MapHas(dispatchStates, req[r1].id)
        /\ dispatchStates[req[r1].id].status = "in_progress"
        /\ MapHas(dispatchSessions, req[r1].id)

C22_FinalTextNeverEmpty ==
    /\ \A r \in DOMAIN req :
          IsSome(req[r].final) =>
             /\ Get(req[r].final) # << >>
             /\ (ModeOf(req[r].p) = "sync" /\ req[r].worker = "returned")
                   => RespText(req[r]) # << >>
    /\ \A c \in DOMAIN calls :
          (calls[c].fn = "sendCompletion" /\ IsSome(calls[c].response))
             => Get(calls[c].response) # << >>
    /\ \A id \in DOMAIN dispatchStates :
          dispatchStates[id].status = "completed" =>
             /\ IsSome(dispatchStates[id].response)
             /\ Get(dispatchStates[id].response) # << >>

\* --------------------------------------------------- heartbeat observables
\* request q is an async-mode dispatch whose task has settled
Settled(q) == q.cls = "new" /\ q.p.msg /\ ModeOf(q.p) = "async" /\ q.pc = "done"
\* the periodic heartbeat calls made for request r
PeriodicBeats(cs, r) ==
    {c \in DOMAIN cs : cs[c].fn = "sendHeartbeat" /\ cs[c].kind = "periodic" /\ cs[c].owner = r}
\* the heartbeat calls made for request r on tool events
EventBeats(cs, r) ==
    {c \in DOMAIN cs : cs[c].fn = "sendHeartbeat" /\ cs[c].kind = "event" /\ cs[c].owner = r}

\* C23: once the task of an async-mode dispatch has settled (normally, after
\* a worker error, or by an exception), its heartbeat timer is cleared and
\* the release of its event subscription has been called (the listener is
\* gone once that call returned); the interval callback does not run for it
\* any more and no periodic heartbeat is started for it.
C23_ReleasedWhenSettled ==
    [][ \A r \in DOMAIN req' :
          LET q == req'[r] IN
          /\ Settled(q) =>
                /\ ~q.heartbeatTimer
                /\ q.ev => q.unsub \in {"called", "threw"}
                /\ q.unsub # "threw" => ~q.subscribed
          /\ (r \in DOMAIN req /\ Settled(req[r])) =>
                /\ q.heartbeatCount = req[r].heartbeatCount
                /\ PeriodicBeats(calls', r) = PeriodicBeats(calls, r) ]_vars

\* a task that had sent one periodic heartbeat settled by an exception, and
\* the next interval has passed since without another heartbeat
C23_Witness ==
    \E r \in DOMAIN req :
        /\ Settled(req[r])
        /\ req[r].worker = "threw"
        /\ req[r].ev
        /\ req[r].unsub = "called"
        /\ req[r].heartbeatCount = 1
        /\ Cardinality(PeriodicBeats(calls, r)) = 1
        /\ now >= req[r].startTime + 2 * HEARTBEAT_INTERVAL_MS

\* ---------------------------------------------------- outbound observables
\* the sendText call x got as far as the classifier with a raw internal error
Classified(x) ==
    /\ x.result \notin {"no_token", "no_space"}
    /\ IsSome(classifyInternalErrorText(x.text))
\* the earlier calls that sent a recovery notice to the space of call i
NoticesBefore(i) ==
    {k \in 1..(i - 1) : /\ Classified(outbox[k])
                        /\ outbox[k].to = outbox[i].to
                        /\ outbox[k].result # "suppressed"}

\* C24: a raw internal error handed to sendText is suppressed (nothing is
\* sent, the call returns ok/suppressed) exactly when a recovery notice went
\* out to the same space less than RECOVERY_NOTICE_COOLDOWN_MS before;
\* otherwise the friendly notice of its kind is sent in its place.  So of two
\* such messages within the window the first is replaced and sent and the
\* second is suppressed.
C24_SecondNoticeSuppressed ==
    \A i \in DOMAIN outbox :
        LET x == outbox[i] IN
        Classified(x) =>
            /\ (x.result = "suppressed") <=>
                  \E k \in NoticesBefore(i) :
                      x.at - outbox[k].at < RECOVERY_NOTICE_COOLDOWN_MS
            /\ x.result = "suppressed" => x.content = None
            /\ x.result # "suppressed" =>
                  /\ x.result \in {"ok", "error"}
                  /\ x.content =
                        Some(buildRecoveryNotice(Get(classifyInternalErrorText(x.text))))
                  /\ MapHas(recoveryNoticeBySpace, Get(x.to))
                  /\ recoveryNoticeBySpace[Get(x.to)] >= x.at

\* a context overflow was replaced and sent, a rate-limit error for the same
\* space was suppressed a minute later, and a third error was replaced and
\* sent once the cooldown was over
C24_Witness ==
    \E i, j, k \in DOMAIN outbox :
        /\ i < j /\ j < k
        /\ outbox[i].to = outbox[j].to /\ outbox[j].to = outbox[k].to
        /\ outbox[i].text = <<"Context overflow">>
        /\ outbox[i].result = "ok"
        /\ outbox[i].content = Some(buildRecoveryNotice("context"))
        /\ outbox[j].text = <<"API rate limit reached">>
        /\ outbox[j].at = outbox[i].at + 60000
        /\ outbox[j].result = "suppressed"
        /\ outbox[j].content = None
        /\ outbox[k].at = outbox[i].at + RECOVERY_NOTICE_COOLDOWN_MS
        /\ outbox[k].content = Some(buildRecoveryNotice("rate"))

\* C25: no text handed to the platform (HTTP response of a delivery or a
\* redelivery, completion callback, sendText content) is a raw internal error.
C25_NoRawInternalErrorForwarded ==
    /\ \A r \in DOMAIN req : classifyInternalErrorText(RespText(req[r])) = None
    /\ \A c \in DOMAIN calls :
          IsSome(calls[c].response) =>
             classifyInternalErrorText(Get(calls[c].response)) = None
    /\ \A i \in DOMAIN outbox :
          IsSome(outbox[i].content) =>
             classifyInternalErrorText(Get(outbox[i].content)) = None

\* C26: a tool event emitted by the worker of one dispatch leaves currentTool
\* and toolCallCount of every other dispatch as they are and starts no
\* heartbeat for it; the total_tool_calls of a completion callback counts no
\* more tool starts than the dispatch's own worker emitted events.
C26_NoCrossTalk ==
    [][ /\ \A r1, r2 \in DOMAIN req :
              ( /\ req[r1].id # req[r2].id
                /\ req'[r2].emitted > req[r2].emitted )
              => /\ req'[r1].currentTool = req[r1].currentTool
                 /\ req'[r1].toolCallCount = req[r1].toolCallCount
                 /\ EventBeats(calls', r1) = EventBeats(calls, r1)
        /\ \A c \in DOMAIN calls' :
              calls'[c].fn = "sendCompletion" =>
                 calls'[c].tools <= req'[calls'[c].owner].emitted ]_vars

\* C30: two heartbeats that one task starts on tool-start events are at least
\* EVENT_HEARTBEAT_MIN_INTERVAL_MS apart: a tool start less than that after
\* the task's last event heartbeat starts none, and one at or beyond it
\* starts exactly one (given heartbeat URL and callback key).
C30_EventHeartbeatsSpaced ==
    [][ \A r \in DOMAIN req :
          LET new == EventBeats(calls', r) \ EventBeats(calls, r)
              started == req'[r].toolCallCount > req[r].toolCallCount
          IN  /\ Cardinality(new) <= 1
              /\ \A c \in new :
                    /\ started
                    /\ calls'[c].at = now
                    /\ \A b \in EventBeats(calls, r) :
                          now - calls[b].at >= EVENT_HEARTBEAT_MIN_INTERVAL_MS
              /\ ( /\ started
                   /\ CanHeartbeat(req[r].p)
                   /\ now - req[r].lastEventHeartbeatTs >= EVENT_HEARTBEAT_MIN_INTERVAL_MS )
                 => new # {} ]_vars

\* a task saw three tool starts and started two heartbeats, the second one
\* exactly EVENT_HEARTBEAT_MIN_INTERVAL_MS after the first: one tool start
\* fell inside the window and started none
C30_Witness ==
    \E r \in DOMAIN req :
        /\ req[r].toolCallCount = 3
        /\ Cardinality(EventBeats(calls, r)) = 2
        /\ \E c1, c2 \in EventBeats(calls, r) :
              calls[c2].at = calls[c1].at + EVENT_HEARTBEAT_MIN_INTERVAL_MS
        /\ now = req[r].lastEventHeartbeatTs

\* a redelivery of request r's dispatch was classified timed_out
TimedOutAfter(r) ==
    \E x \in DOMAIN req : x > r /\ req[x].id = req[r].id /\ req[x].cls = "timed_out"

\* C27: a delivery classified timed_out starts no worker and leaves every
\* other request (its running worker, its task, its timers), the registry
\* and the callbacks as they are; a dispatch that met the timeout still ends
\* as any other: once its worker returned the eviction is set, and in async
\* mode with URL and key the completion callback carries the final text.
C27_TimeoutIsAdvisory ==
    [][ /\ Delivered =>
              LET q == req'[Len(req')] IN
              q.cls = "timed_out" =>
                 /\ q.worker = "none"
                 /\ q.pc = "done"
                 /\ \A r \in DOMAIN req : req'[r] = req[r]
                 /\ calls' = calls
                 /\ dispatchSessions' = dispatchSessions
                 /\ sessionKeyIndex' = sessionKeyIndex
        /\ \A r \in DOMAIN req :
              (TimedOutAfter(r) /\ req[r].worker = "running") =>
                 /\ req'[r].worker \in {"running", "returned", "threw"}
                 /\ (req'[r].worker = "returned" /\ ModeOf(req[r].p) = "sync") =>
                       /\ req'[r].cleanup = "armed"
                       /\ req'[r].cleanupDue = CleanupDue(now)
                       /\ req'[r].resp = Some(JsonSuccess(Get(req'[r].final)))
                 /\ (req'[r].worker # "running" /\ ModeOf(req[r].p) = "async") =>
                       IF HasCallback(req[r].p)
                       THEN \E c \in CompletionCalls(r)' :
                               /\ c \notin DOMAIN calls
                               /\ calls'[c].response = req'[r].final
                       ELSE /\ calls' = calls
                            /\ req'[r].cleanup = "armed"
        /\ \A r \in DOMAIN req' :
              (req'[r].cls = "new" /\ req'[r].pc = "done"
                 /\ req'[r].worker = "returned")
                 => req'[r].cleanup \in {"armed", "fired"} ]_vars

\* an async-mode dispatch met the timeout while its worker was running; the
\* worker returned afterwards, the completion callback carried its text and
\* the session was evicted
C27_Witness ==
    \E r \in DOMAIN req :
        /\ TimedOutAfter(r)
        /\ ModeOf(req[r].p) = "async"
        /\ req[r].worker = "returned"
        /\ req[r].final = Some(<<"Hello">>)
        /\ \E c \in CompletionCalls(r) :
              calls[c].response = Some(<<"Hello">>) /\ calls[c].result
        /\ req[r].cleanup = "fired"
        /\ ~MapHas(dispatchSessions, req[r].id)

\* C28: when the worker of an async-mode dispatch without callback key
\* settles, no completion POST is started (then or later), the final text is
\* cached with status completed, the eviction is set, the heartbeat timer is
\* cleared and the subscription released, and the task ends; only a throwing
\* release of the subscription makes the task reject (the cached text is then
\* the system-error text).
C28_NoKeyStillCompletes ==
    [][ \A r \in DOMAIN req :
          (ModeOf(req[r].p) = "async" /\ ~req[r].p.key) =>
             /\ CompletionCalls(r)' = {}
             /\ (req[r].worker = "running" /\ req'[r].worker # "running") =>
                   LET q == req'[r] IN
                   /\ calls' = calls
                   /\ IsSome(q.final)
                   /\ q.pc = "done"
                   /\ q.cleanup = "armed"
                   /\ q.cleanupDue = CleanupDue(now)
                   /\ ~q.heartbeatTimer
                   /\ q.unsub # "threw" => ~q.subscribed
                   /\ MapHas(dispatchStates, q.id) =>
                         /\ dispatchStates'[q.id].status = "completed"
                         /\ q.unsub # "threw" =>
                               dispatchStates'[q.id].response = q.final ]_vars

\* an async-mode dispatch without callback key ended: its text is cached, no
\* callback was started, its subscription was released and its session evicted
C28_Witness ==
    \E r \in DOMAIN req :
        /\ req[r].p.cb /\ ~req[r].p.key
        /\ req[r].cls = "new"
        /\ req[r].worker = "returned"
        /\ req[r].pc = "done"
        /\ req[r].unsub = "called"
        /\ calls = << >>
        /\ dispatchStates[req[r].id].status = "completed"
        /\ dispatchStates[req[r].id].response = Some(<<"Hello">>)
        /\ req[r].cleanup = "fired"
        /\ ~MapHas(dispatchSessions, req[r].id)

\* the deliveries of the event without dispatch_id
Anonymous == {r \in DOMAIN req : req[r].id \notin Ids}

\* C29: all deliveries of the event without dispatch_id get the same
\* identifier; only the first is classified new and the worker is invoked
\* once.
C29_AnonymousDeduplicated ==
    /\ \A r1, r2 \in Anonymous :
          /\ req[r1].id = req[r2].id
          /\ r1 < r2 => req[r2].cls # "new"
    /\ Cardinality({r \in Anonymous : req[r].worker # "none"}) <= 1

\* ------------------------------------------------- degradation observables
\* request q is an async-mode dispatch whose worker was invoked
Invoked(q) == q.cls = "new" /\ ModeOf(q.p) = "async" /\ q.worker # "none"
\* the sendHeartbeat calls made for request r
Beats(cs, r) == {c \in DOMAIN cs : cs[c].fn = "sendHeartbeat" /\ cs[c].owner = r}

\* C31: while the event source is unavailable (_onAgentEvent is null), an
\* async-mode dispatch whose worker was invoked has no subscription and none
\* to release, counts no tool, sends only periodic heartbeats and each with
\* the generic "Processing" progress and no current_tool, and ends as any
\* other: its completion callback carries the final text (not the rejection
\* handler's) with total_tool_calls = 0, and the final text is cached.
C31_DegradesGracefully ==
    ~onAgentEvent =>
        \A r \in DOMAIN req :
            LET q == req[r] IN
            Invoked(q) =>
                /\ ~q.ev /\ ~q.subscribed /\ q.unsub = "none"
                /\ q.toolCallCount = 0 /\ q.currentTool = None
                /\ \A c \in Beats(calls, r) :
                      /\ calls[c].kind = "periodic"
                      /\ calls[c].progress = "Processing"
                      /\ calls[c].tool = None
                /\ \A c \in CompletionCalls(r) :
                      /\ calls[c].tools = 0
                      /\ IsSome(calls[c].response)
                      /\ calls[c].response = q.final
                /\ q.worker # "running" => IsSome(q.final)
                /\ (q.pc = "done" /\ HasCallback(q.p)) => CompletionCalls(r) # {}

\* without an event source a worker emitted tool events, a periodic heartbeat
\* went out with the generic progress, and the completion callback was
\* delivered with total_tool_calls = 0
C31_Witness ==
    /\ ~onAgentEvent
    /\ agentEventsLoaded
    /\ \E r \in DOMAIN req :
          /\ Invoked(req[r])
          /\ req[r].pc = "done"
          /\ req[r].worker = "returned"
          /\ req[r].emitted >= 1
          /\ req[r].heartbeatCount >= 1
          /\ \E c \in Beats(calls, r) : calls[c].progress = "Processing"
          /\ \E c \in CompletionCalls(r) :
                calls[c].tools = 0 /\ calls[c].result /\ calls[c].response = Some(<<"Hello">>)

\* C32: getOnAgentEvent yields null only when the event source is
\* unavailable: once the host's module has been loaded (_onAgentEvent is
\* set), every async-mode dispatch whose worker was invoked got the subscribe
\* function from its call, also a call made while the first one was still
\* awaiting the import, and subscribed.
C32_EveryTaskTracks ==
    onAgentEvent =>
        \A r \in DOMAIN req : Invoked(req[r]) => req[r].ev

\* the age of the dedup entry of id, from its startedAt
Age(id) == now - dispatchStates[id].startedAt
\* the entries a sweep run now has to leave in the map
Fresh == {id \in DOMAIN dispatchStates : Age(id) <= DEDUP_TTL_MS}
\* the sweep run now leaves exactly the entries of age at most the TTL, each
\* as it is, whatever its status
SweepIsExact ==
    LET left == SweepExpired(dispatchStates, now) IN
    /\ DOMAIN left = Fresh
    /\ \A id \in Fresh : left[id] = dispatchStates[id]
\* the step is a run of the sweep that removed an entry
Swept ==
    /\ cleanupIntervalHandle /\ cleanupIntervalHandle'
    /\ req' = req
    /\ dispatchStates' # dispatchStates

\* C33: a run of the sweep deletes exactly the dedup entries whose age from
\* startedAt exceeds DEDUP_TTL_MS, in_progress or completed, leaves every
\* entry of age at most the TTL as it is, and leaves dispatchSessions and
\* sessionKeyIndex (and everything else) as they are.
C33_SweepExact ==
    /\ []SweepIsExact
    /\ [][ Swept =>
             /\ DOMAIN dispatchStates' = Fresh
             /\ \A id \in Fresh : dispatchStates'[id] = dispatchStates[id]
             /\ \E id \in DOMAIN dispatchStates : Age(id) > DEDUP_TTL_MS
             /\ UNCHANGED << dispatchSessions, sessionKeyIndex, now, calls, payloads >> ]_vars

\* the sweep removed the in_progress entry of a dispatch whose worker is
\* still running and whose Session is still stored, and kept a completed
\* entry whose age is exactly the TTL
C33_Witness ==
    \E r1, r2 \in DOMAIN req :
        /\ req[r1].id # req[r2].id
        /\ req[r1].cls = "new" /\ req[r1].worker = "running"
        /\ Cardinality(NewReqs(req[r1].id)) = 1
        /\ MapHas(dispatchSessions, req[r1].id)
        /\ ~MapHas(dispatchStates, req[r1].id)
        /\ cleanupIntervalHandle
        /\ MapHas(dispatchStates, req[r2].id)
        /\ dispatchStates[req[r2].id].status = "completed"
        /\ Age(req[r2].id) = DEDUP_TTL_MS

\* ------------------------------------------------ fire-and-forget observables
\* what a sendHeartbeat invocation is apart from how its POSTs went
Sent(c) ==
    [c EXCEPT !.attempt = 1, !.pc = "fetch", !.wakeAt = 0, !.last = "none",
              !.waits = 0, !.result = FALSE]
\* the invocations, those of sendHeartbeat without the outcome of their POSTs
CallsView(cs) ==
    [c \in DOMAIN cs |-> IF cs[c].fn = "sendHeartbeat" THEN Sent(cs[c]) ELSE cs[c]]
\* everything but the outcome of heartbeat POSTs
TaskView(rs, states, sessions, index, cs) == << rs, states, sessions, index, CallsView(cs) >>
\* the step is one of a heartbeat's transport: a POST settled or a retry
\* delay elapsed
HeartbeatTransportStep ==
    \E c \in DOMAIN calls : calls[c].fn = "sendHeartbeat" /\ calls'[c] # calls[c]
\* a heartbeat POST of request r failed or is still under way
HeartbeatTrouble(r) ==
    \E c \in Beats(calls, r) : calls[c].pc # "done" \/ ~calls[c].result
\* whatever the heartbeats of a task are at, its worker can return, its timer
\* can run once the interval has passed, and the task can go on once the
\* completion callback returned
NeverBlocked ==
    \A r \in DOMAIN req :
        LET q == req[r] IN
        /\ q.pc = "async_worker" =>
              ENABLED AsyncWorkerSettles(r, << >>, None, FALSE, FALSE)
        /\ (q.pc = "async_completion" /\ calls[q.awaiting].pc = "done") =>
              ENABLED AsyncCompletionReturns(r, FALSE)
        /\ ( /\ q.heartbeatTimer
             /\ now >= q.startTime + (q.heartbeatCount + 1) * HEARTBEAT_INTERVAL_MS )
              => ENABLED HeartbeatTick(r)

\* C34: the outcome of heartbeat POSTs (OK, transport error, non-OK, 401/403,
\* retries) reaches nothing but the sendHeartbeat invocation itself: a step
\* of the heartbeat transport leaves the requests, the dedup map, the
\* registry and every other invocation as they are; the worker, the timer
\* and the task are never held up by a heartbeat; and what the task produces
\* when the worker settles (cached text and status, completion status and
\* payload) is read off the worker's result alone.
C34_FireAndForget ==
    /\ []NeverBlocked
    /\ [][ /\ HeartbeatTransportStep =>
                /\ TaskView(req', dispatchStates', dispatchSessions', sessionKeyIndex', calls')
                     = TaskView(req, dispatchStates, dispatchSessions, sessionKeyIndex, calls)
                /\ now' = now
           /\ \A r \in DOMAIN req :
                (req[r].pc = "async_worker" /\ req'[r].pc # "async_worker") =>
                   LET final == req'[r].final
                       failed == Get(final) # << >> /\ Get(final)[1] = "[Agent error: "
                   IN  /\ req'[r].worker = "returned"
                       /\ dispatchStates'[req[r].id].status = "completed"
                       /\ dispatchStates'[req[r].id].response = final
                       /\ \E c \in (DOMAIN calls') \ (DOMAIN calls) :
                             /\ calls'[c].fn = "sendCompletion"
                             /\ calls'[c].owner = r
                             /\ calls'[c].response = final
                             /\ calls'[c].status = IF failed THEN "failed" ELSE "success"
                             /\ calls'[c].tools = req[r].toolCallCount ]_vars

\* a task whose heartbeats all failed (one by 403, one after three transport
\* errors) ended with the text cached and the completion callback delivered
C34_Witness ==
    \E r \in DOMAIN req :
        /\ req[r].pc = "done"
        /\ req[r].final = Some(<<"Hello">>)
        /\ dispatchStates[req[r].id].response = Some(<<"Hello">>)
        /\ \E c \in CompletionCalls(r) : calls[c].result /\ calls[c].status = "success"
        /\ \E c1, c2 \in Beats(calls, r) :
              /\ calls[c1].last = "403" /\ calls[c1].pc = "done"
              /\ calls[c2].last = "neterr" /\ calls[c2].pc = "done"
              /\ calls[c2].attempt = CALLBACK_RETRY_COUNT
        /\ \A c \in Beats(calls, r) : ~calls[c].result

\* the earlier calls that sent a recovery notice to the space of call i and
\* whose send succeeded
EmittedBefore(i) == {k \in NoticesBefore(i) : outbox[k].result = "ok"}

\* C35: a raw internal error handed to sendText is suppressed only if a
\* recovery notice was emitted (its send to the platform succeeded) for the
\* same space less than RECOVERY_NOTICE_COOLDOWN_MS before; so after a notice
\* whose send failed the next raw internal error for the space is replaced
\* and sent, not suppressed.
C35_SuppressedOnlyAfterEmitted ==
    \A i \in DOMAIN outbox :
        outbox[i].result = "suppressed" =>
            \E k \in EmittedBefore(i) :
                outbox[i].at - outbox[k].at < RECOVERY_NOTICE_COOLDOWN_MS

\* the last of the earlier calls that replaced a raw internal error for the
\* space of call i by a notice (0 if none)
LastNoticeBefore(i) ==
    IF NoticesBefore(i) = {} THEN 0
    ELSE CHOOSE k \in NoticesBefore(i) : \A x \in NoticesBefore(i) : x <= k
\* the step is a sendText call: its record is appended
SendTextCalled == Len(outbox') = Len(outbox) + 1

\* C36: the last-notice time of a space is written only by a sendText call
\* that replaces a raw internal error by a notice and hands it to the
\* platform, and is then the time of that call; a suppressed call (and any
\* other) leaves recoveryNoticeBySpace as it is.  So a raw internal error
\* arriving RECOVERY_NOTICE_COOLDOWN_MS or more after the last notice for its
\* space is replaced and sent, however many were suppressed in between.
C36_SuppressionKeepsCooldown ==
    /\ [](\A i \in DOMAIN outbox :
            (Classified(outbox[i]) /\ LastNoticeBefore(i) # 0) =>
               LET last == outbox[LastNoticeBefore(i)] IN
               outbox[i].at - last.at >= RECOVERY_NOTICE_COOLDOWN_MS =>
                  /\ outbox[i].result \in {"ok", "error"}
                  /\ outbox[i].content =
                        Some(buildRecoveryNotice(Get(classifyInternalErrorText(outbox[i].text)))))
    /\ [][ SendTextCalled =>
             LET x == outbox'[Len(outbox')] IN
             IF Classified(x) /\ x.result # "suppressed"
             THEN recoveryNoticeBySpace' = MapSet(recoveryNoticeBySpace, Get(x.to), now)
             ELSE recoveryNoticeBySpace' = recoveryNoticeBySpace ]_vars

\* a notice went out, a raw internal error was suppressed a minute later and
\* left the last-notice time as it was, and the next one, a full cooldown
\* after the notice but only a minute after the suppressed one, was replaced
\* and sent
C36_Witness ==
    \E s \in Spaces :
        /\ Len(outbox) = 3
        /\ \A i \in 1..3 : outbox[i].to = Some(s) /\ Classified(outbox[i])
        /\ outbox[1].result = "ok"
        /\ outbox[2].result = "suppressed"
        /\ outbox[2].at = outbox[1].at + 60000
        /\ outbox[3].result = "ok"
        /\ outbox[3].at = outbox[2].at + 60000
        /\ recoveryNoticeBySpace[s] = outbox[3].at

\* C37: in every reachable state the secondary index does not dangle:
\* whenever sessionKeyIndex maps a key k to an identifier d, dispatchSessions
\* holds a Session for d and its sessionKey is k (under every interleaving of
\* session puts, deferred evictions and gateway stop).
C37_IndexNeverDangles ==
    \A k \in DOMAIN sessionKeyIndex :
        LET d == sessionKeyIndex[k] IN
        /\ MapHas(dispatchSessions, d)
        /\ dispatchSessions[d].sessionKey = k

\* an eviction set before a gateway stop fired after the identifier was
\* stored anew and removed that Session, while the index points at a later
\* dispatch whose Session is stored
C37_Witness ==
    \E r1, r2, r3 \in DOMAIN req :
        /\ r1 < r2 /\ r2 < r3
        /\ req[r1].id = req[r2].id /\ req[r3].id # req[r1].id
        /\ req[r1].cls = "new" /\ req[r2].cls = "new" /\ req[r3].cls = "new"
        /\ req[r1].cleanup = "fired"
        /\ req[r2].worker = "running"
        /\ ~MapHas(dispatchSessions, req[r2].id)
        /\ MapHas(sessionKeyIndex, req[r3].p.skey)
        /\ sessionKeyIndex[req[r3].p.skey] = req[r3].id
        /\ MapHas(dispatchSessions, req[r3].id)

\* markDispatchCompleted, called now for an identifier without entry, leaves
\* the dedup map as it is
NoEntryNoEffect ==
    \A id \in Ids, text \in {<< >>, <<"Hello">>} :
        ~MapHas(dispatchStates, id) =>
            markDispatchCompleted(dispatchStates, id, text) = dispatchStates

\* C38: markDispatchCompleted creates no dedup entry: when the worker of a
\* dispatch returns while the map holds no entry for its identifier (swept,
\* or cleared by gateway stop), the map stays as it is and the result is not
\* cached; entries come into the map only through a delivery, and the next
\* delivery of an identifier without entry is classified new.
C38_LateResultDropped ==
    /\ []NoEntryNoEffect
    /\ [][ /\ \A r \in DOMAIN req :
                ( /\ req[r].worker = "running"
                  /\ req'[r].worker = "returned"
                  /\ ~MapHas(dispatchStates, req[r].id) )
                => /\ dispatchStates' = dispatchStates
                   /\ ~req'[r].cached
           /\ (DOMAIN dispatchStates') \ (DOMAIN dispatchStates) # {} => Delivered
           /\ Delivered =>
                LET q == req'[Len(req')] IN
                ~MapHas(dispatchStates, q.id) => q.cls = "new" ]_vars

\* a worker returned its text after the entry of its dispatch was gone, the
\* text was not cached, and the next delivery of the identifier was
\* classified new and started over
C38_Witness ==
    \E r1, r2 \in DOMAIN req :
        /\ r1 < r2
        /\ req[r1].id = req[r2].id
        /\ req[r1].worker = "returned"
        /\ req[r1].final = Some(<<"Hello">>)
        /\ ~req[r1].cached
        /\ req[r2].cls = "new"
        /\ req[r2].worker = "running"
        /\ dispatchStates[req[r2].id].status = "in_progress"
        /\ dispatchStates[req[r2].id].response = None

\* ---------------------------------------------------- callback observables
\* the completion callbacks of request r that carry a final text and have
\* not returned yet
CallbackUnderWay(cs, r) ==
    {c \in DOMAIN cs : /\ cs[c].fn = "sendCompletion" /\ cs[c].owner = r
                       /\ IsSome(cs[c].response) /\ cs[c].pc # "done"}
\* the entry of request r's identifier is the one r's delivery created: it
\* is in the map and no later delivery was classified new
EntryKept(r) ==
    /\ MapHas(dispatchStates, req[r].id)
    /\ \A x \in NewReqs(req[r].id) : x <= r

Accepted(q) == q.cls = "new" /\ q.p.msg /\ ModeOf(q.p) = "async"
\* the entry request r's delivery created is completed, or it is gone
CompletedOrGone(r) ==
    EntryKept(r) => dispatchStates[req[r].id].status = "completed"
\* no accepted dispatch is left in_progress with nothing under way that
\* would complete it but a running worker
NoneLeftInProgress ==
    \A r \in DOMAIN req :
        Accepted(req[r]) => (req[r].worker = "running" \/ CompletedOrGone(r))

\* C40: the dedup entry of a dispatch accepted in async mode is completed
\* (unless it was removed meanwhile) as soon as its worker invocation has
\* returned or thrown, and also when the task fails ahead of the worker
\* invocation (the .catch handler of the detached task); so no accepted
\* dispatch stays in_progress forever unless its worker runs forever.
C40_EventuallyCompleted ==
    /\ [](\A r \in DOMAIN req :
            (Accepted(req[r]) /\ req[r].worker \in {"returned", "threw"})
               => CompletedOrGone(r))
    /\ []<>NoneLeftInProgress

\* a task that failed ahead of the worker invocation left its entry
\* completed with the system-error text
C40_Witness ==
    \E r \in DOMAIN req :
        /\ Accepted(req[r])
        /\ req[r].pc = "done"
        /\ req[r].worker = "none"
        /\ EntryKept(r)
        /\ dispatchStates[req[r].id].status = "completed"
        /\ dispatchStates[req[r].id].response = Some(<< "[System error: ", "err", "]" >>)

====
